---------------------------- MODULE Spec2Model ----------------------------
(***************************************************************************)
(* A model of the SolarSystemSim physics core: the body pool               *)
(* (solarsym/system/system.py), the body primitives                        *)
(* (solarsym/system/body.py) and the main loop that drives them            *)
(* (solarsym/__main__.py, solarsym/system_viewer.py, solarsym/drawer.py).  *)
(*                                                                         *)
(* Numbers.  The program computes with Python floats.  They are modelled   *)
(* as decimal floating-point numbers <<m, e>> (the value m * 10^e) whose   *)
(* mantissa carries Digits significant digits; every arithmetic operation  *)
(* truncates its result to that precision, as a float operation rounds to  *)
(* 53 bits.  Small integers and short decimals, and their sums and         *)
(* products, are exact.                                                    *)
(***************************************************************************)
EXTENDS Integers, Sequences, FiniteSets

(***************************************************************************)
(* Bounds of the model.                                                    *)
(***************************************************************************)
Digits    == 5     \* significant decimal digits of a modelled float
MaxFrames == 2     \* frames the main loop runs (skipped frames not counted)
MaxTicks  == 2     \* ticks a client of the pool runs
MaxAdds   == 3     \* bodies a client of the pool adds
LastAddTick == 0   \* the client adds bodies until it has run this many ticks
MaxDrags  == 2     \* bodies the user takes from the preview
ViewWidth  == 20   \* width of the sampled viewport (the program's is 1600)
ViewHeight == 10   \* height of the sampled viewport (the program's is 900)

(***************************************************************************)
(* Decimal floating point.                                                 *)
(***************************************************************************)
\* The largest integer the model checker computes with.
MaxInt == 2 * (2^30 - 1) + 1

Abs(x) == IF x < 0 THEN -x ELSE x

Sgn(x) == IF x < 0 THEN -1 ELSE IF x = 0 THEN 0 ELSE 1

\* Integer division that truncates toward zero (d > 0).
TDiv(n, d) == IF n >= 0 THEN n \div d ELSE -((-n) \div d)

\* The number of decimal digits of x (x > 0).
NumDigits(x) ==
    IF x < 10^5
    THEN IF x < 10 THEN 1 ELSE IF x < 10^2 THEN 2 ELSE IF x < 10^3 THEN 3
         ELSE IF x < 10^4 THEN 4 ELSE 5
    ELSE IF x < 10^6 THEN 6 ELSE IF x < 10^7 THEN 7 ELSE IF x < 10^8 THEN 8
         ELSE IF x < 10^9 THEN 9 ELSE 10

\* The number of zeros that end the decimal writing of x (x > 0).
TrailingZeros(x) ==
    IF x % 10 # 0 THEN 0 ELSE IF x % 10^2 # 0 THEN 1
    ELSE IF x % 10^3 # 0 THEN 2 ELSE IF x % 10^4 # 0 THEN 3
    ELSE IF x % 10^5 # 0 THEN 4 ELSE IF x % 10^6 # 0 THEN 5
    ELSE IF x % 10^7 # 0 THEN 6 ELSE IF x % 10^8 # 0 THEN 7
    ELSE IF x % 10^9 # 0 THEN 8 ELSE 9

\* m1 * 10^e1 without the zeros that end m1 (m1 # 0).
NormTz(m1, e1) ==
    <<TDiv(m1, 10^TrailingZeros(Abs(m1))), e1 + TrailingZeros(Abs(m1))>>

\* m * 10^e with the last cut digits of m cut off.
NormCut(m, e, cut) == NormTz(TDiv(m, 10^cut), e + cut)

\* The float m * 10^e in canonical form: at most Digits digits, no trailing
\* zero; digits beyond the precision are cut off.
Norm(m, e) ==
    IF m = 0 THEN <<0, 0>>
    ELSE NormCut(m, e, IF NumDigits(Abs(m)) > Digits
                       THEN NumDigits(Abs(m)) - Digits ELSE 0)

\* The float of an integer literal, and of a decimal literal n * 10^-k.
I(n) == Norm(n, 0)
D(n, k) == Norm(n, -k)

Zero == <<0, 0>>

Neg(a) == <<-a[1], a[2]>>

\* <<x * 10^j, k + j>> for the least j that makes x * 10^j >= 10^8 (x > 0).
ScaleUp(x, k) ==
    IF NumDigits(x) >= 9 THEN <<x, k>>
    ELSE <<x * 10^(9 - NumDigits(x)), k + (9 - NumDigits(x))>>

\* The mantissa sx with sign s, shifted right by shift digits.
Aligned(s, sx, shift) == IF shift > 9 THEN 0 ELSE s * (sx \div 10^shift)

\* The sum of a and b, sa and sb being their widened mantissas: each is
\* aligned to the larger of the two exponents.
AddScaled(a, b, sa, sb) ==
    Norm(Aligned(Sgn(a[1]), sa[1],
                 IF a[2] - sa[2] >= b[2] - sb[2] THEN 0
                 ELSE (b[2] - sb[2]) - (a[2] - sa[2]))
           + Aligned(Sgn(b[1]), sb[1],
                     IF a[2] - sa[2] >= b[2] - sb[2]
                     THEN (a[2] - sa[2]) - (b[2] - sb[2]) ELSE 0),
         IF a[2] - sa[2] >= b[2] - sb[2] THEN a[2] - sa[2] ELSE b[2] - sb[2])

\* a + b: both mantissas are widened to nine digits, the smaller operand is
\* aligned to the larger one, and the sum is cut to the precision.
Add(a, b) ==
    IF a[1] = 0 THEN b
    ELSE IF b[1] = 0 THEN a
    ELSE AddScaled(a, b, ScaleUp(Abs(a[1]), 0), ScaleUp(Abs(b[1]), 0))

Sub(a, b) == Add(a, Neg(b))

\* s * x * y * 10^e for mantissas x, y > 0: the product is computed in two
\* halves when it does not fit a machine integer.
MulAbs(s, x, y, e) ==
    Norm(IF x <= MaxInt \div y THEN s * x * y
         ELSE s * ((x \div 1000) * (y \div 1000) * 1000
                   + (x \div 1000) * (y % 1000) + (x % 1000) * (y \div 1000)
                   + (((x % 1000) * (y % 1000)) \div 1000)),
         IF x <= MaxInt \div y THEN e ELSE e + 3)

\* a * b
Mul(a, b) ==
    IF a[1] = 0 \/ b[1] = 0 THEN Zero
    ELSE MulAbs(Sgn(a[1]) * Sgn(b[1]), Abs(a[1]), Abs(b[1]), a[2] + b[2])

\* The quotient of sign s of the widened mantissa xs by y: three more digits
\* when the integer quotient is too short.
DivScaled(s, xs, y, e) ==
    Norm(IF xs[1] \div y >= 10^5 THEN s * (xs[1] \div y)
         ELSE s * ((xs[1] \div y) * 1000 + (((xs[1] % y) * 1000) \div y)),
         IF xs[1] \div y >= 10^5 THEN e - xs[2] ELSE e - xs[2] - 3)

\* a / b for b # 0 (the callers raise ZeroDivisionError before dividing by 0).
Div(a, b) ==
    IF a[1] = 0 THEN Zero
    ELSE DivScaled(Sgn(a[1]) * Sgn(b[1]), ScaleUp(Abs(a[1]), 0), Abs(b[1]),
                   a[2] - b[2])

\* a < b and a <= b, by the sign of a - b.
Lt(a, b) == IF a = b THEN FALSE ELSE Sub(a, b)[1] < 0
Le(a, b) == IF a = b THEN TRUE ELSE Sub(a, b)[1] <= 0
Gt(a, b) == Lt(b, a)
Ge(a, b) == Le(b, a)

FAbs(a) == <<Abs(a[1]), a[2]>>

FMax(a, b) == IF Lt(a, b) THEN b ELSE a
FMin(a, b) == IF Lt(b, a) THEN b ELSE a

RECURSIVE ISqrtIn(_, _, _)
\* The integer square root of t, searched in lo..hi (lo^2 <= t < (hi+1)^2).
ISqrtIn(t, lo, hi) ==
    IF lo >= hi THEN lo
    ELSE IF ((lo + hi + 1) \div 2) * ((lo + hi + 1) \div 2) <= t
         THEN ISqrtIn(t, (lo + hi + 1) \div 2, hi)
         ELSE ISqrtIn(t, lo, ((lo + hi + 1) \div 2) - 1)

\* The square root of a, xs being its widened mantissa: the exponent is kept
\* even by dropping one digit when it is odd.
SqrtOf(a, xs) ==
    Norm(ISqrtIn(IF (a[2] - xs[2]) % 2 = 1 THEN xs[1] \div 10 ELSE xs[1],
                 0, 46340),
         (IF (a[2] - xs[2]) % 2 = 1 THEN a[2] - xs[2] + 1 ELSE a[2] - xs[2])
             \div 2)

\* math.sqrt(a) for a >= 0: exact on perfect squares, else cut to 4-5 digits.
Sqrt(a) == IF a[1] <= 0 THEN Zero ELSE SqrtOf(a, ScaleUp(a[1], 0))

(***************************************************************************)
(* 2D vectors of floats: Python lists [x, y].                              *)
(***************************************************************************)
Vec(x, y) == <<x, y>>
VZero == <<Zero, Zero>>
VAdd(u, v) == <<Add(u[1], v[1]), Add(u[2], v[2])>>
VSub(u, v) == <<Sub(u[1], v[1]), Sub(u[2], v[2])>>
VScale(k, v) == <<Mul(k, v[1]), Mul(k, v[2])>>
Dot(u, v) == Add(Mul(u[1], v[1]), Mul(u[2], v[2]))

(***************************************************************************)
(* SystemBody (solarsym/system/body.py).  A body is a record; its id       *)
(* stands for the identity of the Python object (SystemBody defines no     *)
(* __eq__, so == and set membership compare identities).                   *)
(***************************************************************************)
GRAVITY_CONSTANT    == D(66743, 1)     \* 6.67430e3
SYSTEM_SCALE        == D(1, 2)         \* 0.01
COLLISION_DAMPENING == D(1, 2)         \* 0.01

\* SystemBody.__init__: the fields are stored as given; nothing is validated.
SystemBody(id, name, mass, radius, color, position, velocity) ==
    [id |-> id, name |-> name, mass |-> mass, radius |-> radius,
     color |-> color, position |-> position, velocity |-> velocity,
     acceleration |-> VZero]

\* SystemBody.move: semi-implicit Euler step, then the acceleration is reset.
\* An explicit Euler step: the position advances by the velocity the body
\* had before the step.
move_explicit(self, delta) ==
    [self EXCEPT
        !.velocity = VAdd(self.velocity, VScale(delta, self.acceleration)),
        !.position = VAdd(self.position, VScale(delta, self.velocity)),
        !.acceleration = VZero]

move(self, delta) ==
    [self EXCEPT
        !.velocity = VAdd(self.velocity, VScale(delta, self.acceleration)),
        !.position =
            VAdd(self.position,
                 VScale(delta, VAdd(self.velocity,
                                    VScale(delta, self.acceleration)))),
        !.acceleration = VZero]

\* SystemBody.add_acceleration
add_acceleration(self, acceleration) ==
    [self EXCEPT !.acceleration = VAdd(@, acceleration)]

\* v[0] ** 2 + v[1] ** 2
SqrNorm(v) == Add(Mul(v[1], v[1]), Mul(v[2], v[2]))

\* [v[0] / s, v[1] / s]
DivVec(v, s) == Vec(Div(v[1], s), Div(v[2], s))

\* dist_sqr of calc_gravity_acceleration
GravityDistSqr(self, other) == SqrNorm(VSub(other.position, self.position))

\* calc_gravity_acceleration divides by dist_sqr: ZeroDivisionError when the
\* two bodies are at the same position.
GravityRaises(self, other) == GravityDistSqr(self, other) = Zero

\* SystemBody.calc_gravity_acceleration (when it does not raise)
calc_gravity_acceleration(self, other) ==
    Div(Mul(GRAVITY_CONSTANT, other.mass), GravityDistSqr(self, other))

\* math.cos(math.atan2(y, x)) and math.sin(math.atan2(y, x)); atan2(0, 0) = 0.
CosAtan2(y, x) ==
    IF x = Zero /\ y = Zero THEN I(1)
    ELSE Div(x, Sqrt(Add(Mul(x, x), Mul(y, y))))

SinAtan2(y, x) ==
    IF x = Zero /\ y = Zero THEN Zero
    ELSE Div(y, Sqrt(Add(Mul(x, x), Mul(y, y))))

\* The gravity step of update_system for one (affected, affector) pair:
\* accel_vector (system.py lines 144-151).
accel_vector(affected, affector) ==
    Vec(Mul(Neg(calc_gravity_acceleration(affected, affector)),
            CosAtan2(Sub(affected.position[2], affector.position[2]),
                     Sub(affected.position[1], affector.position[1]))),
        Mul(Neg(calc_gravity_acceleration(affected, affector)),
            SinAtan2(Sub(affected.position[2], affector.position[2]),
                     Sub(affected.position[1], affector.position[1]))))

\* calc_collision_bias, its locals in the order the code computes them.
RelVel(self, other) == VSub(self.velocity, other.velocity)
RelPos(self, other) == VSub(self.position, other.position)
RelPosMag(self, other) == SqrNorm(RelPos(self, other))

\* intersection = self._radius + other.radius - distance
Intersection(self, other) ==
    Sub(Add(self.radius, other.radius), Sqrt(RelPosMag(self, other)))

\* col_normal = rel_pos / rel_pos_mag (divided by the SQUARED distance)
ColNormal(self, other) == DivVec(RelPos(self, other), RelPosMag(self, other))

RelVelN(self, other) == Dot(RelVel(self, other), ColNormal(self, other))

\* The ZeroDivisionErrors of a calc_collision_bias that normalizes rel_vel
\* (line 283) before it tests rel_vel_n (line 271): overlapping bodies with
\* no relative velocity divide by rel_vel_mag = 0.
CollisionRaisesAtRest(self, other) ==
    /\ ~Lt(Intersection(self, other), Zero)
    /\ \/ RelPosMag(self, other) = Zero
       \/ SqrNorm(RelVel(self, other)) = Zero
       \/ /\ Lt(RelVelN(self, other), Zero)
          /\ \/ self.mass = Zero
             \/ other.mass = Zero
             \/ Add(Div(I(1), self.mass), Div(I(1), other.mass)) = Zero
             \/ Add(self.mass, other.mass) = Zero

\* The ZeroDivisionErrors of calc_collision_bias: the normal of two bodies at
\* the same position, 1 / mass of a massless body, and the two mass sums.
CollisionRaises(self, other) ==
    /\ ~Lt(Intersection(self, other), Zero)
    /\ \/ RelPosMag(self, other) = Zero
       \/ /\ Lt(RelVelN(self, other), Zero)
          /\ \/ self.mass = Zero
             \/ other.mass = Zero
             \/ Add(Div(I(1), self.mass), Div(I(1), other.mass)) = Zero
             \/ Add(self.mass, other.mass) = Zero

\* impulse of lines 275-278
Impulse(self, other, rel_vel_n) ==
    Div(Mul(Mul(Div(Mul(I(-2), rel_vel_n),
                    Add(Div(I(1), self.mass), Div(I(1), other.mass))),
                Div(other.mass, self.mass)),
            COLLISION_DAMPENING),
        SYSTEM_SCALE)

\* reflection of lines 285-288
Reflection(rel_vel_normalized, rel_vel_n, col_normal) ==
    Vec(Add(Neg(rel_vel_normalized[1]),
            Mul(Mul(I(2), rel_vel_n), col_normal[1])),
        Add(Neg(rel_vel_normalized[2]),
            Mul(Mul(I(2), rel_vel_n), col_normal[2])))

\* Lines 270-295 from rel_vel and col_normal: rel_vel_n is their dot product,
\* rel_vel_normalized is rel_vel over its length.
InfoFrom(self, other, rel_vel, col_normal) ==
    [granularity |-> 10,
     bias |-> Div(self.mass, Add(self.mass, other.mass)),
     impulse |-> Impulse(self, other, Dot(rel_vel, col_normal)),
     reflect_dir |-> Reflection(DivVec(rel_vel, Sqrt(SqrNorm(rel_vel))),
                                Dot(rel_vel, col_normal), col_normal)]

\* The CollisionInfo that lines 274-295 build for two approaching bodies.
CollisionInfoOf(self, other) ==
    InfoFrom(self, other, RelVel(self, other), ColNormal(self, other))

\* calc_collision_bias with a resting contact (rel_vel_n = 0) taken for a
\* collision of no impulse.
calc_collision_bias_resting(self, other) ==
    IF Lt(Intersection(self, other), Zero) THEN <<>>
    ELSE IF Gt(RelVelN(self, other), Zero) THEN <<>>
    ELSE IF RelVelN(self, other) = Zero
         THEN << [granularity |-> 10,
                  bias |-> Div(self.mass, Add(self.mass, other.mass)),
                  impulse |-> Zero, reflect_dir |-> VZero] >>
    ELSE <<CollisionInfoOf(self, other)>>

\* calc_collision_bias with only rel_vel_n = 0 taken for "not approaching".
calc_collision_bias_separating(self, other) ==
    IF Lt(Intersection(self, other), Zero) THEN <<>>
    ELSE IF RelVelN(self, other) = Zero THEN <<>>
    ELSE <<CollisionInfoOf(self, other)>>

\* calc_collision_bias without the test of the intersection depth.
calc_collision_bias_far(self, other) ==
    IF Ge(RelVelN(self, other), Zero) THEN <<>>
    ELSE <<CollisionInfoOf(self, other)>>

\* SystemBody.calc_collision_bias (when it does not raise): <<>> is None,
\* <<info>> a CollisionInfo.
calc_collision_bias(self, other) ==
    IF Lt(Intersection(self, other), Zero) THEN <<>>
    ELSE IF Ge(RelVelN(self, other), Zero) THEN <<>>
    ELSE <<CollisionInfoOf(self, other)>>

\* SystemBody.calc_blended_color.  pygame's Color conversions are not part of
\* the repository: a blended color is kept as the term (self's color, other's
\* color, bias), so it differs from every unblended color.
calc_blended_color(self, other, bias) == self.color \o other.color \o bias

(***************************************************************************)
(* SystemBodyPool.update_system (solarsym/system/system.py).  bs is the    *)
(* list self.bodies; bodies are referred to by their index in bs.          *)
(***************************************************************************)

\* The k-th pair (affected, affector) of the nested loops of lines 128-139,
\* k in 1..n*n; the pairs with i = j are skipped by line 140.
PairI(n, k) == ((k - 1) \div n) + 1
PairJ(n, k) == ((k - 1) % n) + 1

\* Evaluating pair k raises ZeroDivisionError.
PairRaises(bs, k) ==
    LET i == PairI(Len(bs), k)
        j == PairJ(Len(bs), k)
    IN  /\ i # j
        /\ \/ GravityRaises(bs[i], bs[j])
           \/ CollisionRaises(bs[i], bs[j])

\* The least element of a set of positive numbers, 0 for the empty set.
MinOf(R) == IF R = {} THEN 0 ELSE CHOOSE k \in R : \A k2 \in R : k <= k2

\* The first pair that raises, 0 when none does.
FirstRaise(bs) == MinOf({k \in 1..(Len(bs) * Len(bs)) : PairRaises(bs, k)})

RECURSIVE GravityLoop(_, _, _, _)
\* affected = bs[i] after the inner loop has added the gravity of the
\* affectors j..n; stop is the pair that raises (0: none).  The pair that
\* raises still adds its gravity when it is calc_collision_bias that raises.
GravityLoop(bs, i, j, stop) ==
    LET n == Len(bs)
        k == (i - 1) * n + j
    IN  IF j > n \/ (stop # 0 /\ k > stop) THEN bs[i]
        ELSE IF j = i THEN GravityLoop(bs, i, j + 1, stop)
        ELSE IF k = stop /\ GravityRaises(bs[i], bs[j]) THEN bs[i]
        ELSE GravityLoop([bs EXCEPT ![i] =
                             add_acceleration(bs[i], accel_vector(bs[i], bs[j]))],
                         i, j + 1, stop)

\* self.bodies after the loops of lines 128-163 (Phase A): only the
\* accelerations have changed.
AfterGravity(bs, stop) ==
    <<>> \o [i \in 1..Len(bs) |-> GravityLoop(bs, i, 1, stop)]

\* What line 159 appends for the affector bs[j]: nothing when col is None.
EntryOf(j, col) ==
    IF col = <<>> THEN <<>> ELSE << [affector |-> j, col_info |-> col[1]] >>

RECURSIVE AffectorsFrom(_, _, _)
\* update_info.affectors of bs[i]: the [affector, col_info] entries that the
\* affectors j.. add, in the order of the list.
AffectorsFrom(bs, i, j) ==
    IF j > Len(bs) THEN <<>>
    ELSE IF j = i THEN AffectorsFrom(bs, i, j + 1)
    ELSE EntryOf(j, calc_collision_bias(bs[i], bs[j]))
             \o AffectorsFrom(bs, i, j + 1)

\* The _UpdateInfo that line 129 creates for bs[i].
NewUpdateInfo(bs, i) ==
    [new_color |-> bs[i].color, new_mass |-> bs[i].mass,
     new_radius |-> bs[i].radius, new_position |-> bs[i].position,
     due_acceleration |-> VZero, affectors |-> AffectorsFrom(bs, i, 1),
     affected |-> i]

\* pending_updates (lines 161-162): the bodies with at least one collision.
PendingUpdates(bs) ==
    LET all == [i \in 1..Len(bs) |-> NewUpdateInfo(bs, i)]
    IN  SelectSeq(all, LAMBDA u : Len(u.affectors) > 0)

\* math.atan2(y, x) of the reflection is within 0.05 of 0 or of pi:
\*   fabs(theta) >= pi - 0.05 or fabs(theta) < 0.05.
Tan005 == D(50042, 6)       \* tan(0.05)

NearAxis(reflect_dir) ==
    LET rx == reflect_dir[1]
        ry == reflect_dir[2]
    IN  \/ rx = Zero /\ ry = Zero
        \/ Gt(rx, Zero) /\ Lt(FAbs(ry), Mul(Tan005, rx))
        \/ Lt(rx, Zero) /\ Le(FAbs(ry), Mul(Tan005, FAbs(rx)))

\* The merge test without the angle of the reflection.
MergePredicateImpulseOnly(col_info) == Lt(col_info.impulse, I(10))

\* The merge test of line 177.
MergePredicate(col_info) ==
    NearAxis(col_info.reflect_dir) \/ Lt(col_info.impulse, I(10))

\* Lines 185-197 with the affector's share of lines 189-190 taken away
\* from the pending mass and radius instead of added to them.
TransferTaken(bs, upd, affector, col_info) ==
    [upd EXCEPT
       !.new_mass = Sub(Mul(upd.new_mass, col_info.bias),
                        Mul(bs[affector].mass, Sub(I(1), col_info.bias))),
       !.new_radius = Sub(Mul(upd.new_radius, col_info.bias),
                          Mul(bs[affector].radius, Sub(I(1), col_info.bias))),
       !.due_acceleration =
           Vec(Add(upd.due_acceleration[1],
                   Mul(col_info.impulse, col_info.reflect_dir[1])),
               Add(upd.due_acceleration[2],
                   Mul(col_info.impulse, col_info.reflect_dir[2]))),
       !.new_color = calc_blended_color(bs[upd.affected], bs[affector],
                                        col_info.bias)]

\* Lines 185-197: the transfer of mass and radius from the affector, the
\* impulse along the reflection and the blended color.
Transfer(bs, upd, affector, col_info) ==
    [upd EXCEPT
       !.new_mass = Add(Mul(upd.new_mass, col_info.bias),
                        Mul(bs[affector].mass, Sub(I(1), col_info.bias))),
       !.new_radius = Add(Mul(upd.new_radius, col_info.bias),
                          Mul(bs[affector].radius, Sub(I(1), col_info.bias))),
       !.due_acceleration =
           Vec(Add(upd.due_acceleration[1],
                   Mul(col_info.impulse, col_info.reflect_dir[1])),
               Add(upd.due_acceleration[2],
                   Mul(col_info.impulse, col_info.reflect_dir[2]))),
       !.new_color = calc_blended_color(bs[upd.affected], bs[affector],
                                        col_info.bias)]

\* The loop body of lines 166-202 without the test of line 178: a body that
\* a merge already claimed starts a merge pair of its own.
ResolveOneUnclaimed(bs, st, entry) ==
    IF st.upd.affected = entry.affector THEN st
    ELSE IF Lt(entry.col_info.bias, D(1, 1))
         THEN [st EXCEPT !.to_remove = @ \cup {st.upd.affected}]
    ELSE [st EXCEPT
            !.to_merge = IF MergePredicate(entry.col_info)
                         THEN @ \cup {st.upd.affected, entry.affector}
                         ELSE @,
            !.merge_info = IF MergePredicate(entry.col_info)
                           THEN Append(@, <<st.upd.affected, entry.affector>>)
                           ELSE @,
            !.upd = Transfer(bs, st.upd, entry.affector, entry.col_info)]

\* One iteration of the loop body of lines 166-202.  st holds the sets
\* bodies_to_remove and bodies_to_merge, the list body_merge_info and the
\* update being resolved (upd).
ResolveOne(bs, st, entry) ==
    IF st.upd.affected = entry.affector THEN st
    ELSE IF Lt(entry.col_info.bias, D(1, 1))
         THEN [st EXCEPT !.to_remove = @ \cup {st.upd.affected}]
    ELSE IF MergePredicate(entry.col_info) /\ st.upd.affected \in st.to_merge
         THEN st
    ELSE [st EXCEPT
            !.to_merge = IF MergePredicate(entry.col_info)
                         THEN @ \cup {st.upd.affected, entry.affector}
                         ELSE @,
            !.merge_info = IF MergePredicate(entry.col_info)
                           THEN Append(@, <<st.upd.affected, entry.affector>>)
                           ELSE @,
            !.upd = Transfer(bs, st.upd, entry.affector, entry.col_info)]

RECURSIVE ResolveAffectors(_, _, _)
\* The inner loop of line 166 from entry a on; at its end the update is
\* kept, as resolved, in st.done.
ResolveAffectors(bs, st, a) ==
    IF a > Len(st.upd.affectors) THEN [st EXCEPT !.done = Append(@, st.upd)]
    ELSE ResolveAffectors(bs, ResolveOne(bs, st, st.upd.affectors[a]), a + 1)

RECURSIVE ResolveUpdates(_, _, _, _)
\* The loop of line 165 from pending update p on; st.done collects the
\* updates already resolved.
ResolveUpdates(bs, pending, st, p) ==
    IF p > Len(pending) THEN st
    ELSE ResolveUpdates(bs, pending,
             ResolveAffectors(bs, [st EXCEPT !.upd = pending[p]], 1), p + 1)

\* Phase B: the state after the loop of lines 165-202, from the empty sets
\* and list of lines 122-125.
Resolve(bs) ==
    ResolveUpdates(bs, PendingUpdates(bs),
                   [to_remove |-> {}, to_merge |-> {}, merge_info |-> <<>>,
                    done |-> <<>>, upd |-> [affected |-> 0]], 1)

\* _UpdateInfo.apply (lines 41-48)
apply(upd, body) ==
    [body EXCEPT !.color = upd.new_color, !.mass = upd.new_mass,
                 !.radius = upd.new_radius,
                 !.acceleration = upd.due_acceleration]

\* The loop of lines 224-227: the updates of the bodies that no merge claimed
\* are committed.
ApplyUpdates(bs, st) ==
    <<>> \o [i \in 1..Len(bs) |->
        IF i \notin st.to_merge /\ \E q \in 1..Len(st.done) : st.done[q].affected = i
        THEN apply(st.done[CHOOSE q \in 1..Len(st.done) : st.done[q].affected = i],
                   bs[i])
        ELSE bs[i]]

\* Line 230 and the divisions of lines 233-240: ZeroDivisionError when the
\* masses of a merge pair cancel.
MergeRaises(body1, body2) == Add(body1.mass, body2.mass) = Zero

\* A merge that puts the new body halfway between the two, whatever their
\* masses.
MergedBodyMidpoint(body1, body2, id) ==
    LET new_mass == Add(body1.mass, body2.mass)
        new_velocity ==
            Vec(Div(Add(Mul(body1.velocity[1], body1.mass),
                        Mul(body2.velocity[1], body2.mass)), new_mass),
                Div(Add(Mul(body1.velocity[2], body1.mass),
                        Mul(body2.velocity[2], body2.mass)), new_mass))
    IN  SystemBody(id, body1.name \o body2.name, new_mass,
                   Add(body1.radius, body2.radius),
                   calc_blended_color(body1, body2, D(5, 1)),
                   VScale(D(5, 1), VAdd(body1.position, body2.position)),
                   new_velocity)

\* The body synthesized for a merge pair (lines 230-241).
MergedBody(body1, body2, id) ==
    LET new_mass   == Add(body1.mass, body2.mass)
        new_radius == Add(body1.radius, body2.radius)
        new_color  == calc_blended_color(body1, body2, D(5, 1))
        new_position ==
            Vec(Div(Add(Mul(body1.position[1], body1.mass),
                        Mul(body2.position[1], body2.mass)), new_mass),
                Div(Add(Mul(body1.position[2], body1.mass),
                        Mul(body2.position[2], body2.mass)), new_mass))
        new_velocity ==
            Vec(Div(Add(Mul(body1.velocity[1], body1.mass),
                        Mul(body2.velocity[1], body2.mass)), new_mass),
                Div(Add(Mul(body1.velocity[2], body1.mass),
                        Mul(body2.velocity[2], body2.mass)), new_mass))
    IN  SystemBody(id, body1.name \o body2.name, new_mass, new_radius,
                   new_color, new_position, new_velocity)

RECURSIVE SetToSeq(_)
\* The elements of a finite set of integers, in increasing order.
SetToSeq(S) ==
    IF S = {} THEN <<>>
    ELSE LET m == CHOOSE a \in S : \A b \in S : a <= b
         IN  <<m>> \o SetToSeq(S \ {m})

\* bodies_to_remove kept as a list: an absorbed body that is also a member of
\* a merge pair is listed twice, and so is a member of two pairs.
RemovalList(st) ==
    SetToSeq(st.to_remove)
    \o [p \in 1..Len(st.merge_info) |-> st.merge_info[p][1]]
    \o [p \in 1..Len(st.merge_info) |-> st.merge_info[p][2]]

\* bodies_to_remove without lines 242-243: the members of the merge pairs
\* stay in the pool.
RemovalAbsorbedOnly(st) == SetToSeq(st.to_remove)

\* The bodies the loop of lines 246-247 removes: bodies_to_remove is a set, so
\* each body is listed once (its iteration order does not change the result).
RemovalOrder(st) ==
    SetToSeq(st.to_remove
             \cup {st.merge_info[p][1] : p \in 1..Len(st.merge_info)}
             \cup {st.merge_info[p][2] : p \in 1..Len(st.merge_info)})

\* list.remove(body): the first element that is the body is deleted;
\* ValueError when the body is not in the list.  <<list, raised>>.
ListRemove(list, id) ==
    LET at == {k \in 1..Len(list) : list[k].id = id}
    IN  IF at = {} THEN <<list, TRUE>>
        ELSE LET k == CHOOSE a \in at : \A b \in at : a <= b
             IN  <<SubSeq(list, 1, k - 1) \o SubSeq(list, k + 1, Len(list)), FALSE>>

RECURSIVE RemoveAll(_, _, _)
\* The loop of lines 246-247 over the ids rem[r..]; it stops at a ValueError.
RemoveAll(list, rem, r) ==
    IF r > Len(rem) THEN <<list, FALSE>>
    ELSE LET one == ListRemove(list, rem[r])
         IN  IF one[2] THEN one ELSE RemoveAll(one[1], rem, r + 1)

\* The orders in which a set of k new bodies can be iterated (line 249).
Orders(k) ==
    {f \in [1..k -> 1..k] : \A a, b \in 1..k : a # b => f[a] # f[b]}

\* The locals of a call, with the bodies named by their identities.
Locals(bs, st) ==
    [to_remove |-> {bs[i].id : i \in st.to_remove},
     to_merge |-> {bs[i].id : i \in st.to_merge},
     merge_info |-> [p \in 1..Len(st.merge_info) |->
                        <<bs[st.merge_info[p][1]].id,
                          bs[st.merge_info[p][2]].id>>],
     updates |-> st.done]

\* The result of a call: self.bodies afterwards (kept: before the appends of
\* line 250), the exception that ended it ("" when it returned) and its
\* locals.
Result(after, kept, error, locals, removals, added) ==
    [bodies |-> after, kept |-> kept, error |-> error,
     to_remove |-> locals.to_remove, to_merge |-> locals.to_merge,
     merge_info |-> locals.merge_info, removals |-> removals,
     added |-> added, updates |-> locals.updates]

\* Lines 246-250 for the new bodies added and the identities to remove.
AfterMerge(bs, st, applied, added, removals) ==
    Result(IF RemoveAll(applied, removals, 1)[2]
           THEN RemoveAll(applied, removals, 1)[1]
           ELSE RemoveAll(applied, removals, 1)[1] \o added,
           RemoveAll(applied, removals, 1)[1],
           IF RemoveAll(applied, removals, 1)[2] THEN "ValueError" ELSE "",
           Locals(bs, st), removals, added)

\* Lines 229-250 on applied, the bodies as the loop of lines 224-227 left
\* them.
AfterApply(bs, nid, st, applied) ==
    IF \E p \in 1..Len(st.merge_info) :
           MergeRaises(applied[st.merge_info[p][1]],
                       applied[st.merge_info[p][2]])
    THEN Result(applied, applied, "ZeroDivisionError", Locals(bs, st),
                <<>>, <<>>)
    ELSE AfterMerge(bs, st, applied,
                    [p \in 1..Len(st.merge_info) |->
                        MergedBody(applied[st.merge_info[p][1]],
                                   applied[st.merge_info[p][2]], nid + p - 1)],
                    [r \in 1..Len(RemovalOrder(st)) |->
                        bs[RemovalOrder(st)[r]].id])

\* Lines 165-250 for the outcome st of the loop of lines 165-202.
AfterResolve(bs, nid, grav, st) ==
    AfterApply(bs, nid, st, ApplyUpdates(grav, st))

\* Lines 165-250, unless a pair of the loops of lines 128-163 raised.
AfterPhaseA(bs, nid, stop, grav) ==
    IF stop # 0
    THEN Result(grav, grav, "ZeroDivisionError",
                [to_remove |-> {}, to_merge |-> {}, merge_info |-> <<>>,
                 updates |-> <<>>], <<>>, <<>>)
    ELSE AfterResolve(bs, nid, grav, Resolve(grav))

\* SystemBodyPool.update_system on self.bodies = bs, up to the order in which
\* line 249 iterates bodies_to_add.  nid is the identity the next created
\* object gets.
UpdateResult(bs, nid) ==
    AfterPhaseA(bs, nid, FirstRaise(bs), AfterGravity(bs, FirstRaise(bs)))

\* The result u of an update_system without the appends of lines 249-250:
\* the synthesized bodies never enter the pool.
ReorderedDropped(u, order) ==
    IF u.error # "" THEN u ELSE [u EXCEPT !.bodies = u.kept]

\* The result u of update_system when bodies_to_add is iterated in order.
Reordered(u, order) ==
    IF u.error # "" THEN u
    ELSE [u EXCEPT !.bodies =
             u.kept \o [p \in 1..Len(u.added) |-> u.added[order[p]]]]

\* SystemBodyPool.update_system (lines 118-250)
update_system(bs, nid, order) == Reordered(UpdateResult(bs, nid), order)

\* SystemBodyPool.move_all
move_all(bs, delta) == [i \in 1..Len(bs) |-> move(bs[i], delta)]

\* SystemBodyPool.add_body
add_body(bs, body) == Append(bs, body)

(***************************************************************************)
(* The field sampler: SystemBody.calc_gravity_at_point and                 *)
(* SystemBodyPool.update_heatmap / create_heatmap_surface.                 *)
(***************************************************************************)
HEATMAP_CELL_SIZE == 10
HEATMAP_UPDATE_INTERVAL == D(150, 1)      \* 15.0

\* dist_sqr of calc_gravity_at_point: floored at radius squared.
PointDistSqr(self, point) ==
    FMax(SqrNorm(VSub(point, self.position)), Mul(self.radius, self.radius))

\* calc_gravity_at_point divides by dist_sqr and by dist.
PointRaises(self, point) == PointDistSqr(self, point) = Zero

\* SystemBody.calc_gravity_at_point (when it does not raise): a GravityInfo.
calc_gravity_at_point(self, point) ==
    [force |-> Div(GRAVITY_CONSTANT, PointDistSqr(self, point)),
     direction |-> DivVec(VSub(point, self.position),
                          Sqrt(PointDistSqr(self, point)))]

\* range(HEATMAP_CELL_SIZE // 2, size + HEATMAP_CELL_SIZE // 2, HEATMAP_CELL_SIZE)
CellCenters(size) ==
    [k \in 1..((size + HEATMAP_CELL_SIZE - 1) \div HEATMAP_CELL_SIZE) |->
        (HEATMAP_CELL_SIZE \div 2) + (k - 1) * HEATMAP_CELL_SIZE]

\* The sample point of the cell centred at pixel (x, y) (lines 276-279).
SamplePoint(x, y, scale, view) ==
    Vec(Add(Div(I(x - (view.width \div 2)), Mul(SYSTEM_SCALE, scale)), I(view.x)),
        Add(Div(I(y - (view.height \div 2)), Mul(SYSTEM_SCALE, scale)), I(view.y)))

RECURSIVE TotalAccel(_, _, _)
\* total_accel of lines 281-284 over the bodies b..: the summed force.
TotalAccel(bs, point, b) ==
    IF b > Len(bs) THEN Zero
    ELSE Add(calc_gravity_at_point(bs[b], point).force,
             TotalAccel(bs, point, b + 1))

\* Some body makes calc_gravity_at_point raise at some sample point.
GridRaises(bs, scale, view) ==
    \E y \in 1..Len(CellCenters(view.height)), x \in 1..Len(CellCenters(view.width)),
       b \in 1..Len(bs) :
        PointRaises(bs[b], SamplePoint(CellCenters(view.width)[x],
                                       CellCenters(view.height)[y], scale, view))

\* self._heatmap after lines 271-287: one row of summed forces per cell row.
SampleGrid(bs, scale, view) ==
    [y \in 1..Len(CellCenters(view.height)) |->
        [x \in 1..Len(CellCenters(view.width)) |->
            TotalAccel(bs, SamplePoint(CellCenters(view.width)[x],
                                       CellCenters(view.height)[y], scale, view), 1)]]

\* The cells of a grid, row by row.
RECURSIVE Flatten(_)
Flatten(grid) == IF grid = <<>> THEN <<>> ELSE Head(grid) \o Flatten(Tail(grid))

RECURSIVE FoldMax(_, _, _)
FoldMax(cells, k, acc) ==
    IF k > Len(cells) THEN acc ELSE FoldMax(cells, k + 1, FMax(acc, cells[k]))

RECURSIVE FoldMin(_, _, _)
FoldMin(cells, k, acc) ==
    IF k > Len(cells) THEN acc ELSE FoldMin(cells, k + 1, FMin(acc, cells[k]))

RECURSIVE Halve(_, _)
\* <<x / 2^j, k + j>> for the least j that brings x (>= 1) below 2.
Halve(x, k) == IF Lt(x, I(2)) THEN <<x, k>> ELSE Halve(Mul(x, D(5, 1)), k + 1)

RECURSIVE AtanhTerms(_, _, _)
\* zk / n + zk z2 / (n + 2) + ... up to the term of z^9, zk being z^n.
AtanhTerms(zk, z2, n) ==
    IF n > 9 THEN Zero
    ELSE Add(Div(zk, I(n)), AtanhTerms(Mul(zk, z2), z2, n + 2))

\* ln(x * 2^j * 10^e10) for h = <<x, j>>, 1 <= x < 2:
\* ln x = 2 (z + z^3/3 + z^5/5 + z^7/7 + z^9/9) for z = (x - 1) / (x + 1).
LnHalved(h, e10) ==
    Add(Mul(I(2),
            AtanhTerms(Div(Sub(h[1], I(1)), Add(h[1], I(1))),
                       Mul(Div(Sub(h[1], I(1)), Add(h[1], I(1))),
                           Div(Sub(h[1], I(1)), Add(h[1], I(1)))), 1)),
        Add(Mul(I(h[2]), D(69315, 5)), Mul(I(e10), D(23026, 4))))

\* math.log(a) for a > 0: a = x * 2^j * 10^e10 with 1 <= x < 2, the
\* mantissa being brought into 1..10 first.
Ln(a) ==
    LnHalved(Halve(<<a[1], ScaleUp(a[1], 0)[2] - 8>>, 0),
             a[2] + 8 - ScaleUp(a[1], 0)[2])

\* int(a): the float cut to an integer, toward zero.  An integer too large
\* for the machine is given as the largest one, with its sign.
FloatToInt(a) ==
    IF a[2] > 4 THEN Sgn(a[1]) * MaxInt
    ELSE IF a[2] >= 0 THEN a[1] * 10^a[2]
    ELSE IF -a[2] > 9 THEN 0
    ELSE TDiv(a[1], 10^(-a[2]))

\* The surface of line 316 as create_heatmap_surface leaves it when it
\* returns before drawing or raises error.
Blank(error) ==
    [surface |-> [kind |-> "blank", cells |-> <<>>], error |-> error]

\* color of lines 337-338 for a cell value.
CellColor(value, data_range, accel_min, scaled_range) ==
    FloatToInt(Mul(Div(Sub(Div(Ln(value), data_range), accel_min),
                       scaled_range), I(255)))

\* Lines 335-350: accel_min is the scaled minimum of line 331; pygame raises
\* ValueError for a grey level outside 0..255.
SurfaceScaled(cells, data_range, accel_min, scaled_range) ==
    IF scaled_range = Zero THEN Blank("ZeroDivisionError")
    ELSE IF \E k \in 1..Len(cells) : ~Gt(cells[k], Zero)
    THEN Blank("ValueError")
    ELSE IF \E k \in 1..Len(cells) :
                CellColor(cells[k], data_range, accel_min, scaled_range)
                    \notin 0..255
    THEN Blank("ValueError")
    ELSE [surface |->
              [kind |-> "drawn",
               cells |-> [k \in 1..Len(cells) |->
                   CellColor(cells[k], data_range, accel_min, scaled_range)]],
          error |-> ""]

\* Lines 330-350.
SurfaceLog(cells, accel_max, accel_min, data_range) ==
    IF data_range = Zero THEN Blank("ZeroDivisionError")
    ELSE SurfaceScaled(cells, data_range, Div(accel_min, data_range),
                       Sub(Div(accel_max, data_range),
                           Div(accel_min, data_range)))

\* Lines 325-350 without the early return of line 325 for a field whose
\* minimum and maximum are equal.
SurfaceInUnguarded(cells, accel_max, accel_min) ==
    IF accel_min = Zero THEN Blank("ZeroDivisionError")
    ELSE IF ~Gt(Div(accel_max, accel_min), Zero) THEN Blank("ValueError")
    ELSE SurfaceLog(cells, accel_max, accel_min,
                    Ln(Div(accel_max, accel_min)))

\* Lines 325-350: math.log raises ValueError unless the ratio is positive.
SurfaceIn(cells, accel_max, accel_min) ==
    IF Sub(accel_min, accel_max) = Zero THEN Blank("")
    ELSE IF accel_min = Zero THEN Blank("ZeroDivisionError")
    ELSE IF ~Gt(Div(accel_max, accel_min), Zero) THEN Blank("ValueError")
    ELSE SurfaceLog(cells, accel_max, accel_min,
                    Ln(Div(accel_max, accel_min)))

\* SystemBodyPool.create_heatmap_surface on self._heatmap = grid.  The result
\* is the surface (blank, or the grey level drawn for each cell) and the
\* exception that ended the call: ZeroDivisionError or ValueError from the
\* normalisation, ValueError from pygame for a grey level outside 0..255.
create_heatmap_surface(grid) ==
    SurfaceIn(Flatten(grid), FoldMax(Flatten(grid), 1, Zero),
              FoldMin(Flatten(grid), 1, Norm(1, 20)))

\* Line 289 for the surface made of the new grid.
Surfaced(hm, grid, made) ==
    IF made.error # ""
    THEN [hm |-> [hm EXCEPT !.update_time = Zero, !.heatmap = grid],
          error |-> made.error, recomputed |-> TRUE]
    ELSE [hm |-> [hm EXCEPT !.update_time = Zero, !.heatmap = grid,
                            !.surface = made.surface],
          error |-> "", recomputed |-> TRUE]

\* update_heatmap without the test of the refresh interval: every enabled
\* call recomputes the grid.
update_heatmap_eager(hm, bs, delta, scale, view) ==
    IF ~hm.active
    THEN [hm |-> hm, error |-> "", recomputed |-> FALSE]
    ELSE IF GridRaises(bs, scale, view)
    THEN [hm |-> [hm EXCEPT !.update_time = Zero, !.heatmap = <<>>],
          error |-> "ZeroDivisionError", recomputed |-> FALSE]
    ELSE Surfaced(hm, SampleGrid(bs, scale, view),
                  create_heatmap_surface(SampleGrid(bs, scale, view)))

\* update_heatmap with a recomputing call that keeps its own delta: the
\* counter starts again at delta and not at 0.
update_heatmap_keeping(hm, bs, delta, scale, view) ==
    IF ~hm.active
    THEN [hm |-> hm, error |-> "", recomputed |-> FALSE]
    ELSE IF Lt(hm.update_time, HEATMAP_UPDATE_INTERVAL)
    THEN [hm |-> [hm EXCEPT !.update_time = Add(@, delta)],
          error |-> "", recomputed |-> FALSE]
    ELSE IF GridRaises(bs, scale, view)
    THEN [hm |-> [hm EXCEPT !.update_time = delta, !.heatmap = <<>>],
          error |-> "ZeroDivisionError", recomputed |-> FALSE]
    ELSE [Surfaced(hm, SampleGrid(bs, scale, view),
                   create_heatmap_surface(SampleGrid(bs, scale, view)))
            EXCEPT !.hm.update_time = delta]

\* update_heatmap with a counter that stands still below the interval.
update_heatmap_stalled(hm, bs, delta, scale, view) ==
    IF ~hm.active
    THEN [hm |-> hm, error |-> "", recomputed |-> FALSE]
    ELSE IF Lt(hm.update_time, HEATMAP_UPDATE_INTERVAL)
    THEN [hm |-> hm, error |-> "", recomputed |-> FALSE]
    ELSE IF GridRaises(bs, scale, view)
    THEN [hm |-> [hm EXCEPT !.update_time = Zero, !.heatmap = <<>>],
          error |-> "ZeroDivisionError", recomputed |-> FALSE]
    ELSE Surfaced(hm, SampleGrid(bs, scale, view),
                  create_heatmap_surface(SampleGrid(bs, scale, view)))

\* SystemBodyPool.update_heatmap on the pool's heatmap fields hm =
\* [heatmap, active, update_time, surface].  The result holds the fields
\* afterwards, the exception that ended the call and whether the grid was
\* recomputed.
update_heatmap(hm, bs, delta, scale, view) ==
    IF ~hm.active
    THEN [hm |-> hm, error |-> "", recomputed |-> FALSE]
    ELSE IF Lt(hm.update_time, HEATMAP_UPDATE_INTERVAL)
    THEN [hm |-> [hm EXCEPT !.update_time = Add(@, delta)],
          error |-> "", recomputed |-> FALSE]
    ELSE IF GridRaises(bs, scale, view)
    THEN [hm |-> [hm EXCEPT !.update_time = Zero, !.heatmap = <<>>],
          error |-> "ZeroDivisionError", recomputed |-> FALSE]
    ELSE Surfaced(hm, SampleGrid(bs, scale, view),
                  create_heatmap_surface(SampleGrid(bs, scale, view)))

\* SystemBodyPool.toggle_heatmap
toggle_heatmap(hm, state) == [hm EXCEPT !.active = state]

(***************************************************************************)
(* The body-creation drawer (drawer.py) and the viewer (system_viewer.py). *)
(***************************************************************************)
DigitChars == <<"0", "1", "2", "3", "4", "5", "6", "7", "8", "9">>

IsDigit(c) == \E k \in 1..Len(DigitChars) : DigitChars[k] = c

DigitValue(c) == (CHOOSE k \in 1..Len(DigitChars) : DigitChars[k] = c) - 1

RECURSIVE DigitsValue(_, _)
\* The integer written by the digits of text, acc being the value so far.
DigitsValue(text, acc) ==
    IF text = <<>> THEN acc
    ELSE DigitsValue(Tail(text), 10 * acc + DigitValue(Head(text)))

\* float(text) for a text of characters: an optional sign, then digits with
\* at most one point among them and at least one digit.  <<value>>, or <<>>
\* for the ValueError of any other text.
ParseFloat(text) ==
    LET signed   == text # <<>> /\ Head(text) \in {"-", "+"}
        unsigned == IF signed THEN Tail(text) ELSE text
        points   == {k \in 1..Len(unsigned) : unsigned[k] = "."}
        digits   == [k \in 1..(Len(unsigned) - Cardinality(points)) |->
                        unsigned[IF points # {} /\ k >= (CHOOSE q \in points : TRUE)
                                 THEN k + 1 ELSE k]]
        decimals == IF points = {} THEN 0
                    ELSE Len(unsigned) - (CHOOSE q \in points : TRUE)
        wellformed == /\ Cardinality(points) <= 1
                      /\ digits # <<>>
                      /\ \A k \in 1..Len(digits) : IsDigit(digits[k])
        value    == DigitsValue(digits, 0)
    IN  IF ~wellformed THEN <<>>
        ELSE <<Norm(IF signed /\ Head(text) = "-" THEN -value ELSE value,
                    -decimals)>>

\* What the user types into the mass and radius boxes before Return.
MassTexts   == {<<"0">>, <<"x">>}
RadiusTexts == {<<"-", "6", "0">>}

\* Where the mouse can be: the centre of the view and the pixel right of it.
MousePositions == {<<800, 450>>, <<801, 450>>}

\* clock.tick(165): the milliseconds a frame took.
TickMs == {6, 10}

\* RenderView._view_pos and RenderView._zoom (lines 48-49): the wheel and the
\* dragging of the view are not modelled, so both keep their first values.
view_pos == Vec(Zero, Zero)
zoom     == I(1)
speedup  == I(1)

\* The world position pre_draw gives the dragged body for mouse position
\* mouse_pos (lines 91-94), view_rect being Rect(0, 0, 1600, 900).
DragPosition(mouse_pos) ==
    Vec(Add(Div(I(mouse_pos[1] - 800), Mul(SYSTEM_SCALE, zoom)), view_pos[1]),
        Add(Div(I(mouse_pos[2] - 450), Mul(SYSTEM_SCALE, zoom)), view_pos[2]))

\* The velocity on_event gives the released body (lines 156-159).
ReleaseVelocity(mouse_pos, drop, dt) ==
    Vec(Div(Mul(Mul(I(mouse_pos[1] - drop[1]), dt), D(1, 1)),
            Mul(SYSTEM_SCALE, zoom)),
        Div(Mul(Mul(I(mouse_pos[2] - drop[2]), dt), D(1, 1)),
            Mul(SYSTEM_SCALE, zoom)))

\* The rectangle update_heatmap is handed by pre_draw (line 80), with the
\* sampled size in place of 1600 x 900.
ViewRect ==
    [x |-> FloatToInt(view_pos[1]), y |-> FloatToInt(view_pos[2]),
     width |-> ViewWidth, height |-> ViewHeight]

(***************************************************************************)
(* The state: the pool, the preview and the viewer, the main loop.         *)
(***************************************************************************)
VARIABLES
    bodies,               \* SystemBodyPool.bodies
    heatmap,              \* SystemBodyPool._heatmap
    heatmap_active,       \* SystemBodyPool._heatmap_active
    heatmap_update_time,  \* SystemBodyPool._heatmap_update_time
    heatmap_surface,      \* SystemBodyPool._heatmap_surface
    preview,              \* BodyPreviewUI._body
    control_state,        \* RenderView._control_state
    drag_body,            \* RenderView._drag_body: <<>> or <<body>>
    drop_pos,             \* RenderView._drop_pos
    delta,                \* main: delta
    expected_delta,       \* main: expected_delta
    pc,                   \* where the driver of the pool stands
    nextId,               \* the identity of the next object constructed
    frame,                \* frames (ticks) started
    adds,                 \* bodies the user has taken from the preview / made
    calls,                \* history: the calls made on the pool, in order
    pass,                 \* history: the last update_system call
    skipped,              \* history: the main loop has skipped a frame
    raised                \* the exception that ended the program, "" if none

vars == <<bodies, heatmap, heatmap_active, heatmap_update_time, heatmap_surface,
          preview, control_state, drag_body, drop_pos, delta, expected_delta,
          pc, nextId, frame, adds, calls, pass, skipped, raised>>

poolVars   == <<bodies, heatmap, heatmap_active, heatmap_update_time,
                heatmap_surface>>
viewerVars == <<preview, control_state, drag_body, drop_pos>>

\* The pool's heatmap fields as one record.
HeatmapFields ==
    [heatmap |-> heatmap, active |-> heatmap_active,
     update_time |-> heatmap_update_time, surface |-> heatmap_surface]

NoSurface == [kind |-> "none", cells |-> <<>>]

NoPass ==
    [pre |-> <<>>, post |-> <<>>, error |-> "", to_remove |-> {},
     to_merge |-> {}, merge_info |-> <<>>, removals |-> <<>>,
     added |-> <<>>, updates |-> <<>>]

\* The record kept of an update_system call on pre that gave r.
PassOf(pre, r) ==
    [pre |-> pre, post |-> r.bodies, error |-> r.error,
     to_remove |-> r.to_remove, to_merge |-> r.to_merge,
     merge_info |-> r.merge_info, removals |-> r.removals,
     added |-> r.added, updates |-> r.updates]

\* SystemBodyPool.__init__ (lines 51-57), BodyDrawerUI.__init__ /
\* BodyPreviewUI.__init__ (line 31), RenderView.__init__ (lines 46-53) and
\* the locals of main before its loop (lines 35-38).
Init ==
    /\ bodies = <<>>
    /\ heatmap = <<>>
    /\ heatmap_active = TRUE
    /\ heatmap_update_time = Zero
    /\ heatmap_surface = NoSurface
    /\ preview = SystemBody(1, <<"Earth">>, D(500972, 3), I(800),
                            <<0, 0, 255>>, VZero, VZero)
    /\ control_state = "STATE_NONE"
    /\ drag_body = <<>>
    /\ drop_pos = <<0, 0>>
    /\ delta = D(1, 1)
    /\ expected_delta = Zero
    /\ pc = "clock"
    /\ nextId = 2
    /\ frame = 0
    /\ adds = 0
    /\ calls = <<>>
    /\ pass = NoPass
    /\ skipped = FALSE
    /\ raised = ""

(***************************************************************************)
(* main (__main__.py lines 42-69)                                          *)
(***************************************************************************)
\* A main loop that tests the delta after the events and pre_draw of the
\* frame, so that a frame whose delta is too high skips only post_draw.
ClockTickSkipsPostDraw(ms) ==
    /\ pc = "clock"
    /\ frame < MaxFrames
    /\ \E d \in {Mul(Mul(I(ms), D(1, 1)), speedup)} :
       \E e \in {IF expected_delta = Zero THEN Mul(d, D(11, 1))
                 ELSE expected_delta} :
       \E skip \in {Gt(d, e)} :
           /\ delta' = d
           /\ expected_delta' = e
           /\ skipped' = (skipped \/ skip)
           /\ IF skip
              THEN /\ calls' = calls \o <<"update_system", "update_heatmap">>
                   /\ pc' = "clock"
              ELSE /\ calls' = calls
                   /\ pc' = "events"
           /\ frame' = IF skip THEN frame ELSE frame + 1
    /\ UNCHANGED <<poolVars, viewerVars, nextId, adds, pass, raised>>

\* Lines 43-50: the clock ticks; a frame whose delta is too high is skipped.
ClockTick(ms) ==
    /\ pc = "clock"
    /\ frame < MaxFrames
    /\ \E d \in {Mul(Mul(I(ms), D(1, 1)), speedup)} :
       \E e \in {IF expected_delta = Zero THEN Mul(d, D(11, 1))
                 ELSE expected_delta} :
       \E skip \in {Gt(d, e)} :
           /\ delta' = d
           /\ expected_delta' = e
           /\ pc' = IF skip THEN "clock" ELSE "events"
           /\ frame' = IF skip THEN frame ELSE frame + 1
           /\ skipped' = (skipped \/ skip)
    /\ UNCHANGED <<poolVars, viewerVars, nextId, adds, calls, pass, raised>>

\* Lines 53-54: a QUIT event ends the program.
Quit ==
    /\ pc = "events"
    /\ pc' = "quit"
    /\ UNCHANGED <<poolVars, viewerVars, delta, expected_delta, nextId, frame,
                   adds, calls, pass, raised, skipped>>

\* BodyDrawerUI.on_event lines 373-379: Return in the mass box.
TypeMass(text) ==
    /\ pc = "events"
    /\ preview' = IF ParseFloat(text) = <<>> THEN preview
                  ELSE [preview EXCEPT !.mass = ParseFloat(text)[1]]
    /\ UNCHANGED <<poolVars, control_state, drag_body, drop_pos, delta,
                   expected_delta, pc, nextId, frame, adds, calls, pass, raised,
                   skipped>>

\* BodyDrawerUI.on_event lines 381-387: Return in the radius box.
TypeRadius(text) ==
    /\ pc = "events"
    /\ preview' = IF ParseFloat(text) = <<>> THEN preview
                  ELSE [preview EXCEPT !.radius = ParseFloat(text)[1]]
    /\ UNCHANGED <<poolVars, control_state, drag_body, drop_pos, delta,
                   expected_delta, pc, nextId, frame, adds, calls, pass, raised,
                   skipped>>

\* BodyPreviewUI.on_event (drawer.py lines 80-97) with
\* RenderView.start_drag_body: a click on the preview hands its body to the
\* viewer and leaves a fresh copy in the preview.
PreviewClick ==
    /\ pc = "events"
    /\ adds < MaxDrags
    /\ control_state' = "STATE_SELECTED"
    /\ drag_body' = <<preview>>
    /\ preview' = SystemBody(nextId, preview.name, preview.mass, preview.radius,
                             preview.color, VZero, VZero)
    /\ nextId' = nextId + 1
    /\ adds' = adds + 1
    /\ UNCHANGED <<poolVars, drop_pos, delta, expected_delta, pc, frame, calls,
                   pass, raised, skipped>>

\* RenderView.on_event lines 168-171: the button is let go of while a body is
\* dragged.
MouseUp ==
    /\ pc = "events"
    /\ control_state = "STATE_SELECTED"
    /\ control_state' = "STATE_DROPPED"
    /\ UNCHANGED <<poolVars, preview, drag_body, drop_pos, delta,
                   expected_delta, pc, nextId, frame, adds, calls, pass, raised,
                   skipped>>

\* RenderView.on_event lines 150-161: the click that releases the dropped
\* body with its velocity and adds it to the pool.
MouseDown(mouse_pos) ==
    /\ pc = "events"
    /\ control_state = "STATE_DROPPED"
    /\ control_state' = "STATE_NONE"
    /\ bodies' = add_body(bodies,
                    [drag_body[1] EXCEPT
                        !.velocity = ReleaseVelocity(mouse_pos, drop_pos, delta)])
    /\ drag_body' = <<>>
    /\ calls' = Append(calls, "add_body")
    /\ UNCHANGED <<heatmap, heatmap_active, heatmap_update_time,
                   heatmap_surface, preview, drop_pos, delta, expected_delta,
                   pc, nextId, frame, adds, pass, raised, skipped>>

\* Line 52: the event queue is empty.
EventsDone ==
    /\ pc = "events"
    /\ pc' = "pre_draw"
    /\ UNCHANGED <<poolVars, viewerVars, delta, expected_delta, nextId, frame,
                   adds, calls, pass, raised, skipped>>

\* RenderView.pre_draw (system_viewer.py lines 75-95), called at line 61 of
\* main: update_system, then update_heatmap, then the dragged body follows
\* the mouse.  An exception of either call ends the program.
PreDraw ==
    /\ pc = "pre_draw"
    /\ \E u \in {UpdateResult(bodies, nextId)} :
       \E order \in Orders(Len(u.added)), mouse_pos \in MousePositions :
       \E r \in {Reordered(u, order)} :
           /\ pass' = PassOf(bodies, r)
           /\ bodies' = r.bodies
           /\ nextId' = nextId + Len(r.added)
           /\ IF r.error # ""
              THEN /\ raised' = r.error
                   /\ pc' = "crashed"
                   /\ calls' = Append(calls, "update_system")
                   /\ UNCHANGED <<heatmap, heatmap_active,
                                  heatmap_update_time, heatmap_surface,
                                  drag_body, drop_pos>>
              ELSE \E h \in {update_heatmap(HeatmapFields, r.bodies, delta,
                                            zoom, ViewRect)} :
                   /\ calls' = calls \o <<"update_system", "update_heatmap">>
                   /\ heatmap' = h.hm.heatmap
                   /\ heatmap_active' = h.hm.active
                   /\ heatmap_update_time' = h.hm.update_time
                   /\ heatmap_surface' = h.hm.surface
                   /\ raised' = h.error
                   /\ IF h.error # ""
                      THEN /\ pc' = "crashed"
                           /\ UNCHANGED <<drag_body, drop_pos>>
                      ELSE /\ pc' = "post_draw"
                           /\ IF control_state = "STATE_SELECTED"
                              THEN /\ drop_pos' = mouse_pos
                                   /\ drag_body' =
                                       <<[drag_body[1] EXCEPT !.position =
                                            DragPosition(mouse_pos)]>>
                              ELSE UNCHANGED <<drag_body, drop_pos>>
    /\ UNCHANGED <<preview, control_state, delta, expected_delta, frame, adds,
                   skipped>>

\* RenderView.post_draw (system_viewer.py lines 97-101), called at line 63 of
\* main after the drawing, which reads the pool and changes nothing.
PostDraw ==
    /\ pc = "post_draw"
    /\ bodies' = move_all(bodies, delta)
    /\ calls' = Append(calls, "move_all")
    /\ pc' = "clock"
    /\ UNCHANGED <<heatmap, heatmap_active, heatmap_update_time,
                   heatmap_surface, viewerVars, delta, expected_delta, nextId,
                   frame, adds, pass, raised, skipped>>

Next ==
    \/ \E ms \in TickMs : ClockTick(ms)
    \/ Quit
    \/ \E text \in MassTexts : TypeMass(text)
    \/ \E text \in RadiusTexts : TypeRadius(text)
    \/ PreviewClick
    \/ MouseUp
    \/ \E mouse_pos \in MousePositions : MouseDown(mouse_pos)
    \/ EventsDone
    \/ PreDraw
    \/ PostDraw

Spec == Init /\ [][Next]_vars

(***************************************************************************)
(* A client of SystemBodyPool: it constructs bodies, adds them, and runs   *)
(* ticks of update_system, update_heatmap and move_all on the pool.        *)
(***************************************************************************)
\* The bodies the client constructs.
BodyInputs ==
    { [name |-> <<"A">>, mass |-> I(1000), radius |-> I(50), color |-> <<255, 0, 0>>,
       position |-> Vec(I(0), I(0)), velocity |-> Vec(I(0), I(0))],
      [name |-> <<"B">>, mass |-> I(10), radius |-> I(5), color |-> <<0, 255, 0>>,
       position |-> Vec(I(52), I(0)), velocity |-> Vec(I(0), I(0))],
      [name |-> <<"B1">>, mass |-> I(10), radius |-> I(5), color |-> <<0, 255, 0>>,
       position |-> Vec(I(52), I(0)), velocity |-> Vec(I(-10), I(0))],
      [name |-> <<"C">>, mass |-> I(50), radius |-> I(5), color |-> <<0, 0, 255>>,
       position |-> Vec(I(300), I(0)), velocity |-> Vec(I(1), I(0))],
      [name |-> <<"D">>, mass |-> I(50), radius |-> I(5), color |-> <<255, 255, 0>>,
       position |-> Vec(I(308), I(0)), velocity |-> Vec(I(-1), I(0))],
      [name |-> <<"E">>, mass |-> I(30), radius |-> I(5), color |-> <<0, 255, 255>>,
       position |-> Vec(I(304), I(0)), velocity |-> Vec(I(0), I(0))],
      [name |-> <<"F">>, mass |-> I(50), radius |-> I(5), color |-> <<255, 0, 255>>,
       position |-> Vec(I(300), I(6)), velocity |-> Vec(I(0), I(-13))],
      [name |-> <<"G">>, mass |-> I(50), radius |-> I(5), color |-> <<9, 9, 9>>,
       position |-> Vec(I(308), I(0)), velocity |-> Vec(I(2), I(0))],
      [name |-> <<"H">>, mass |-> I(50), radius |-> I(5), color |-> <<90, 90, 90>>,
       position |-> Vec(I(308), I(0)), velocity |-> Vec(I(-3), I(0))],
      [name |-> <<"J">>, mass |-> I(10), radius |-> I(5), color |-> <<7, 70, 7>>,
       position |-> Vec(I(46), I(0)), velocity |-> Vec(I(0), I(0))],
      [name |-> <<"K">>, mass |-> I(100), radius |-> I(5), color |-> <<70, 7, 70>>,
       position |-> Vec(I(30), I(30)), velocity |-> Vec(I(-40), I(-40))] }

\* The frame times the client passes to update_heatmap and move_all.
Deltas == {D(6, 1), I(16)}

PoolInit ==
    /\ bodies = <<>>
    /\ heatmap = <<>>
    /\ heatmap_active = TRUE
    /\ heatmap_update_time = Zero
    /\ heatmap_surface = NoSurface
    /\ preview = SystemBody(1, <<"Earth">>, D(500972, 3), I(800),
                            <<0, 0, 255>>, VZero, VZero)
    /\ control_state = "STATE_NONE"
    /\ drag_body = <<>>
    /\ drop_pos = <<0, 0>>
    /\ delta = D(1, 1)
    /\ expected_delta = Zero
    /\ pc = "idle"
    /\ nextId = 2
    /\ frame = 0
    /\ adds = 0
    /\ calls = <<>>
    /\ pass = NoPass
    /\ skipped = FALSE
    /\ raised = ""

\* SystemBody.__init__ (body.py lines 49-56) and SystemBodyPool.add_body.
AddBody(b) ==
    /\ pc = "idle"
    /\ adds < MaxAdds
    /\ frame <= LastAddTick
    /\ bodies' = add_body(bodies, SystemBody(nextId, b.name, b.mass, b.radius,
                                             b.color, b.position, b.velocity))
    /\ nextId' = nextId + 1
    /\ adds' = adds + 1
    /\ calls' = Append(calls, "add_body")
    /\ UNCHANGED <<heatmap, heatmap_active, heatmap_update_time,
                   heatmap_surface, viewerVars, delta, expected_delta, pc,
                   frame, pass, raised, skipped>>

\* SystemBodyPool.toggle_heatmap
ToggleHeatmap(state) ==
    /\ pc = "idle"
    /\ heatmap_active # state
    /\ heatmap_active' = toggle_heatmap(HeatmapFields, state).active
    /\ UNCHANGED <<bodies, heatmap, heatmap_update_time, heatmap_surface,
                   viewerVars, delta, expected_delta, pc, nextId, frame, adds,
                   calls, pass, raised, skipped>>

\* SystemBodyPool.update_system
UpdateSystem ==
    /\ pc = "idle"
    /\ frame < MaxTicks
    /\ \E u \in {UpdateResult(bodies, nextId)} :
       \E order \in Orders(Len(u.added)) :
       \E r \in {Reordered(u, order)} :
           /\ pass' = PassOf(bodies, r)
           /\ bodies' = r.bodies
           /\ nextId' = nextId + Len(r.added)
           /\ raised' = r.error
           /\ pc' = IF r.error # "" THEN "crashed" ELSE "updated"
    /\ frame' = frame + 1
    /\ calls' = Append(calls, "update_system")
    /\ UNCHANGED <<heatmap, heatmap_active, heatmap_update_time,
                   heatmap_surface, viewerVars, delta, expected_delta, adds,
                   skipped>>

\* SystemBodyPool.update_heatmap
UpdateHeatmap(d) ==
    /\ pc = "updated"
    /\ \E h \in {update_heatmap(HeatmapFields, bodies, d, zoom, ViewRect)} :
           /\ heatmap' = h.hm.heatmap
           /\ heatmap_active' = h.hm.active
           /\ heatmap_update_time' = h.hm.update_time
           /\ heatmap_surface' = h.hm.surface
           /\ raised' = h.error
           /\ pc' = IF h.error # "" THEN "crashed" ELSE "sampled"
    /\ delta' = d
    /\ calls' = Append(calls, "update_heatmap")
    /\ UNCHANGED <<bodies, viewerVars, expected_delta, nextId, frame, adds, pass,
                   skipped>>

\* SystemBodyPool.move_all
MoveAll ==
    /\ pc = "sampled"
    /\ bodies' = move_all(bodies, delta)
    /\ calls' = Append(calls, "move_all")
    /\ pc' = "idle"
    /\ UNCHANGED <<heatmap, heatmap_active, heatmap_update_time,
                   heatmap_surface, viewerVars, delta, expected_delta, nextId,
                   frame, adds, pass, raised, skipped>>

PoolNext ==
    \/ \E b \in BodyInputs : AddBody(b)
    \/ UpdateSystem
    \/ \E d \in Deltas : UpdateHeatmap(d)
    \/ MoveAll

PoolSpec == PoolInit /\ [][PoolNext]_vars

\* The client that also switches the field sampler on and off, on pools of
\* the bodies of FieldInputs.
FieldInputs ==
    {b \in BodyInputs : b.name \in {<<"A">>, <<"C">>, <<"D">>}}
    \cup { [name |-> <<"Earth">>, mass |-> D(500972, 3), radius |-> I(800),
            color |-> <<0, 0, 255>>, position |-> Vec(I(200), I(0)),
            velocity |-> Vec(I(0), I(0))] }

FieldNext ==
    \/ \E b \in FieldInputs : AddBody(b)
    \/ \E state \in BOOLEAN : ToggleHeatmap(state)
    \/ UpdateSystem
    \/ \E d \in Deltas : UpdateHeatmap(d)
    \/ MoveAll

FieldSpec == PoolInit /\ [][FieldNext]_vars

\* The client that never stops sampling: on a pool it leaves empty it
\* switches the sampler and calls update_heatmap for ever, as the main loop
\* does once a frame (RenderView.pre_draw).  Its log calls starts afresh at
\* every update_heatmap call.
\* The frame times this client passes to update_heatmap.
SamplerDeltas == {I(3), I(6), I(16)}

Resample(d) ==
    /\ pc = "idle"
    /\ \E h \in {update_heatmap(HeatmapFields, bodies, d, zoom, ViewRect)} :
           /\ heatmap' = h.hm.heatmap
           /\ heatmap_active' = h.hm.active
           /\ heatmap_update_time' = h.hm.update_time
           /\ heatmap_surface' = h.hm.surface
           /\ raised' = h.error
           /\ pc' = IF h.error # "" THEN "crashed" ELSE "idle"
    /\ delta' = d
    /\ calls' = <<"update_heatmap">>
    /\ UNCHANGED <<bodies, viewerVars, expected_delta, nextId, frame, adds, pass,
                   skipped>>

SamplerNext ==
    \/ \E state \in BOOLEAN : ToggleHeatmap(state)
    \/ \E d \in SamplerDeltas : Resample(d)

\* The client's loop does not end: an update_heatmap call that is possible
\* is made.
SamplerSpec ==
    PoolInit /\ [][SamplerNext]_vars /\ WF_vars(\E d \in SamplerDeltas : Resample(d))

(***************************************************************************)
(* Properties.  pass holds the last update_system call: the pool before    *)
(* it (pre), after it (post) and the locals of the call.                   *)
(***************************************************************************)
Ids(bs) == {bs[k].id : k \in 1..Len(bs)}

ById(bs, id) == bs[CHOOSE k \in 1..Len(bs) : bs[k].id = id]

\* The last call made on the pool ("" before the first).
LastCall == IF calls = <<>> THEN "" ELSE calls[Len(calls)]

\* The last update_system call returned.
PassReturned == pass.pre # <<>> /\ pass.error = ""

\* The bodies that were members of a merge pair of the last pass.
MergeMembers ==
    {pass.merge_info[p][1] : p \in 1..Len(pass.merge_info)}
    \cup {pass.merge_info[p][2] : p \in 1..Len(pass.merge_info)}

\* a and b agree to the precision of the arithmetic (all but the last two
\* digits).
Close(a, b) ==
    LET d == FAbs(Sub(a, b))
        m == FMax(FAbs(a), FAbs(b))
    IN  d = Zero \/ Le(d, Mul(m, <<1, 2 - Digits>>))

VClose(u, v) == Close(u[1], v[1]) /\ Close(u[2], v[2])

\* C1: every merge pair (b1, b2) of a force/collision pass gives a
\* synthesized body, present in the pool after the pass, whose mass and
\* radius are the sums of those of b1 and b2 and whose position and velocity
\* are the mass-weighted averages, all taken from the values b1 and b2 had
\* at the start of the pass.
C1_MergeFormulas ==
    PassReturned =>
        \A p \in 1..Len(pass.merge_info) :
            LET b1 == ById(pass.pre, pass.merge_info[p][1])
                b2 == ById(pass.pre, pass.merge_info[p][2])
                m  == Add(b1.mass, b2.mass)
                nb == pass.added[p]
            IN  /\ \E k \in 1..Len(pass.post) : pass.post[k] = nb
                /\ nb.mass = m
                /\ nb.radius = Add(b1.radius, b2.radius)
                /\ \A c \in 1..2 :
                    /\ nb.position[c] =
                         Div(Add(Mul(b1.position[c], b1.mass),
                                 Mul(b2.position[c], b2.mass)), m)
                    /\ nb.velocity[c] =
                         Div(Add(Mul(b1.velocity[c], b1.mass),
                                 Mul(b2.velocity[c], b2.mass)), m)

\* C1 witness: a pass has merged two bodies of different mass at different
\* positions.
C1_Witness ==
    /\ PassReturned
    /\ \E p \in 1..Len(pass.merge_info) :
        LET b1 == ById(pass.pre, pass.merge_info[p][1])
            b2 == ById(pass.pre, pass.merge_info[p][2])
        IN  /\ b1.mass # b2.mass
            /\ b1.position # b2.position
            /\ \E k \in 1..Len(pass.post) : pass.post[k] = pass.added[p]

\* C2: at the end of every tick no body is twice in the pool, and every body
\* that a pass absorbed or consumed in a merge was removed exactly once: it
\* is absent from the pool and no removal was attempted on a body that was
\* no longer in the list (list.remove did not raise ValueError).
C2_RemovedOnce ==
    /\ \A i, j \in 1..Len(bodies) : bodies[i].id = bodies[j].id => i = j
    /\ pass.error # "ValueError"
    /\ PassReturned =>
        \A id \in pass.to_remove \cup MergeMembers :
            /\ id \notin Ids(pass.post)
            /\ id \notin Ids(bodies)
            /\ Cardinality({r \in 1..Len(pass.removals) :
                               pass.removals[r] = id}) = 1

\* C2 witness: a tick has ended in which one body was both absorbed and a
\* member of a merge pair, and none of the bodies of its start is left.
C2_Witness ==
    /\ PassReturned
    /\ LastCall = "move_all"
    /\ pass.to_remove \cap MergeMembers # {}
    /\ Ids(pass.pre) \cap Ids(bodies) = {}

\* C3: the calls on the pool come frame by frame in the order update_system,
\* update_heatmap, move_all: move_all never comes before the update_system of
\* its frame, and update_system never comes twice without a move_all between,
\* skipped frames included.
FrameCalls == SelectSeq(calls, LAMBDA c : c # "add_body")

C3_FrameOrder ==
    \A k \in 1..Len(FrameCalls) :
        LET nxt == IF k = Len(FrameCalls) THEN "" ELSE FrameCalls[k + 1]
            prv == IF k = 1 THEN "" ELSE FrameCalls[k - 1]
        IN  /\ FrameCalls[k] = "update_system" =>
                /\ prv \in {"", "move_all"}
                /\ nxt \in {"", "update_heatmap"}
            /\ FrameCalls[k] = "update_heatmap" =>
                /\ prv = "update_system"
                /\ nxt \in {"", "move_all"}
            /\ FrameCalls[k] = "move_all" =>
                /\ prv = "update_heatmap"
                /\ nxt \in {"", "update_system"}

\* C3 witness: a frame has run to its end after a frame was skipped.
C3_Witness ==
    /\ skipped
    /\ frame = 2
    /\ Len(FrameCalls) = 6
    /\ LastCall = "move_all"

\* The pair (self, other) is in contact and approaching: the case in which
\* lines 263-272 of calc_collision_bias do not return None.
Approaching(self, other) ==
    /\ Ge(Intersection(self, other), Zero)
    /\ Lt(RelVelN(self, other), Zero)

\* bias of line 291
BiasOf(self, other) == Div(self.mass, Add(self.mass, other.mass))

\* The bodies of the last pass that collided with a body absorbed for its
\* bias (pairs (affected, affector) with bias < 0.1).
AbsorbedPairs ==
    {pr \in (1..Len(pass.pre)) \X (1..Len(pass.pre)) :
        /\ pr[1] # pr[2]
        /\ Approaching(pass.pre[pr[1]], pass.pre[pr[2]])
        /\ Lt(BiasOf(pass.pre[pr[1]], pass.pre[pr[2]]), D(1, 1))}

\* C4: for every pair (affected, affector) of a pass whose collision has
\* bias < 0.1, affected is absent from the pool after the pass and after the
\* tick, it is a member of no merge pair (no synthesized body's mass includes
\* its mass), and a surviving body that collided with affected and with no
\* other body keeps the mass it had at the start of the pass.
C4_AbsorbedMassGone ==
    PassReturned =>
        \A pr \in AbsorbedPairs :
            LET affected == pass.pre[pr[1]]
            IN  /\ affected.id \notin Ids(pass.post)
                /\ LastCall = "move_all" => affected.id \notin Ids(bodies)
                /\ affected.id \notin MergeMembers
                /\ \A k \in 1..Len(pass.pre) :
                    LET s == pass.pre[k]
                    IN  (/\ s.id \in Ids(pass.post)
                         /\ \A o \in 1..Len(pass.pre) :
                               (o # k /\ Approaching(s, pass.pre[o]))
                                   <=> o = pr[1])
                        => ById(pass.post, s.id).mass = s.mass

\* The two bodies of the scenario: A {mass 1000, radius 50, at (0, 0), at
\* rest} and B {mass 10, radius 5, at (52, 0), at rest}.
IsBodyA(b) ==
    /\ b.mass = I(1000) /\ b.radius = I(50)
    /\ b.position = Vec(I(0), I(0)) /\ b.velocity = Vec(I(0), I(0))

IsBodyB(b) ==
    /\ b.mass = I(10) /\ b.radius = I(5)
    /\ b.position = Vec(I(52), I(0)) /\ b.velocity = Vec(I(0), I(0))

\* One tick has run on a pool that held exactly A and B.
AfterOneTickAB ==
    /\ frame = 1
    /\ LastCall = "move_all"
    /\ Len(pass.pre) = 2
    /\ \/ IsBodyA(pass.pre[1]) /\ IsBodyB(pass.pre[2])
       \/ IsBodyB(pass.pre[1]) /\ IsBodyA(pass.pre[2])

\* C5 as stated: after one tick on the pool {A, B} the pool contains only A,
\* with its mass and radius unchanged, and B is gone.
C5_OnlyARemains ==
    AfterOneTickAB =>
        /\ Len(bodies) = 1
        /\ bodies[1].mass = I(1000)
        /\ bodies[1].radius = I(50)

\* C5 (amended): after one tick on the pool {A, B} the pool still contains
\* both A and B, each with the mass and radius it had: the two overlap but
\* their relative velocity is zero, so neither direction gives a collision
\* and nothing is absorbed.
C5_BothRemain ==
    AfterOneTickAB =>
        /\ pass.error = ""
        /\ calc_collision_bias(pass.pre[1], pass.pre[2]) = <<>>
        /\ calc_collision_bias(pass.pre[2], pass.pre[1]) = <<>>
        /\ Len(bodies) = 2
        /\ \A k \in 1..2 :
            /\ bodies[k].id = pass.pre[k].id
            /\ bodies[k].mass = pass.pre[k].mass
            /\ bodies[k].radius = pass.pre[k].radius

\* C5 witness: the tick on {A, B} has ended and B, overlapping A by 3, is
\* still in the pool.
C5_Witness ==
    /\ AfterOneTickAB
    /\ Intersection(pass.pre[1], pass.pre[2]) = I(3)
    /\ \E k \in 1..Len(bodies) : bodies[k].mass = I(10)

\* Body i of bs is in contact with no body other than body j.
OnlyContact(bs, i, j) ==
    \A k \in 1..Len(bs) :
        (k # i /\ k # j) => Lt(Intersection(bs[i], bs[k]), Zero)

\* C6: for any two overlapping bodies of a pass whose relative velocity has
\* a normal component >= 0, calc_collision_bias returns None in both
\* directions, the two are no merge pair, and (when neither touches a third
\* body) the pass removes neither and leaves the mass, radius and color of
\* both unchanged.
C6_NoResponseWhenSeparating ==
    PassReturned =>
        \A i, j \in 1..Len(pass.pre) :
            LET a == pass.pre[i]
                b == pass.pre[j]
            IN  (/\ i # j
                 /\ Ge(Intersection(a, b), Zero)
                 /\ Ge(RelVelN(a, b), Zero))
                =>
                /\ calc_collision_bias(a, b) = <<>>
                /\ calc_collision_bias(b, a) = <<>>
                /\ \A p \in 1..Len(pass.merge_info) :
                      {pass.merge_info[p][1], pass.merge_info[p][2]}
                          # {a.id, b.id}
                /\ (OnlyContact(pass.pre, i, j) /\ OnlyContact(pass.pre, j, i))
                   =>
                   /\ {a.id, b.id} \cap (pass.to_remove \cup MergeMembers) = {}
                   /\ \A x \in {a, b} :
                         /\ x.id \in Ids(pass.post)
                         /\ ById(pass.post, x.id).mass = x.mass
                         /\ ById(pass.post, x.id).radius = x.radius
                         /\ ById(pass.post, x.id).color = x.color

\* C6 witness: a pass has run on two overlapping bodies that move apart, and
\* both are still in the pool.
C6_Witness ==
    /\ PassReturned
    /\ Len(pass.pre) = 2
    /\ Gt(Intersection(pass.pre[1], pass.pre[2]), Zero)
    /\ Gt(RelVelN(pass.pre[1], pass.pre[2]), Zero)
    /\ Ids(pass.post) = Ids(pass.pre)

\* No two bodies of bs overlap: radius sum minus distance < 0 for all pairs.
NoOverlap(bs) ==
    \A i, j \in 1..Len(bs) : i # j => Lt(Intersection(bs[i], bs[j]), Zero)

\* A step that is an update_system call on a pool without overlap, and a step
\* that is the move_all call of such a tick.
PassStep == calls' = Append(calls, "update_system") /\ NoOverlap(bodies)
IntegrationStep == calls' = Append(calls, "move_all") /\ NoOverlap(pass.pre)

\* What a pass on a pool without overlap does: the call returns, the pool
\* keeps its members in their order, and nothing but acceleration changes.
PassFrame ==
    /\ raised' = ""
    /\ Len(bodies') = Len(bodies)
    /\ \A k \in 1..Len(bodies) :
          bodies'[k] = [bodies[k] EXCEPT !.acceleration = bodies'[k].acceleration]

\* C7 as stated: in a pool without overlap a pass leaves the mass, radius and
\* color of every body and the membership unchanged, only acceleration
\* changes in the pass, and only velocity and position change in the
\* integration that follows.
C7_OnlyVelocityAndPosition ==
    [][/\ PassStep => PassFrame
       /\ IntegrationStep =>
            /\ Len(bodies') = Len(bodies)
            /\ \A k \in 1..Len(bodies) :
                  bodies'[k] = [bodies[k] EXCEPT
                                   !.velocity = bodies'[k].velocity,
                                   !.position = bodies'[k].position]]_vars

\* C7 (amended): in a pool without overlap a pass leaves the mass, radius and
\* color of every body and the membership unchanged and only acceleration
\* changes in the pass; the integration that follows changes velocity and
\* position and resets acceleration to zero, and nothing else.
C7_AccelerationReset ==
    [][/\ PassStep => PassFrame
       /\ IntegrationStep =>
            /\ Len(bodies') = Len(bodies)
            /\ \A k \in 1..Len(bodies) :
                  /\ bodies'[k] = [bodies[k] EXCEPT
                                      !.velocity = bodies'[k].velocity,
                                      !.position = bodies'[k].position,
                                      !.acceleration = VZero]
                  /\ bodies'[k].velocity =
                        VAdd(bodies[k].velocity,
                             VScale(delta, bodies[k].acceleration))
                  /\ bodies'[k].position =
                        VAdd(bodies[k].position,
                             VScale(delta, bodies'[k].velocity))]_vars

\* C7 witness: a tick has ended on a pool of several bodies without overlap,
\* whose pass gave a body an acceleration that the integration has reset.
C7_Witness ==
    /\ PassReturned
    /\ Len(pass.pre) >= 2
    /\ NoOverlap(pass.pre)
    /\ LastCall = "move_all"
    /\ \E k \in 1..Len(pass.post) : pass.post[k].acceleration # VZero
    /\ \A k \in 1..Len(bodies) : bodies[k].acceleration = VZero

\* x is the average of a and b, to the precision of the arithmetic.
AvgClose(x, a, b) ==
    Le(FAbs(Sub(x, Mul(D(5, 1), Add(a, b)))),
       Mul(FMax(FAbs(a), FAbs(b)), <<1, 2 - Digits>>))

VAvgClose(x, a, b) == AvgClose(x[1], a[1], b[1]) /\ AvgClose(x[2], a[2], b[2])

\* u and v are parallel.
Parallel(u, v) == Mul(u[1], v[2]) = Mul(u[2], v[1])

\* The merge predicate, as the claim words it, for the collision of self
\* with other.
MergesWith(self, other) ==
    LET info == CollisionInfoOf(self, other)
    IN  NearAxis(info.reflect_dir) \/ Lt(info.impulse, I(10))

\* The last pass ran on exactly two bodies of equal mass on a direct head-on
\* course (each moves along the line of the centres, and they approach) that
\* are in contact and satisfy the merge predicate.
HeadOnPair ==
    /\ PassReturned
    /\ Len(pass.pre) = 2
    /\ LET a == pass.pre[1]
           b == pass.pre[2]
       IN  /\ a.mass = b.mass
           /\ Parallel(a.velocity, RelPos(a, b))
           /\ Parallel(b.velocity, RelPos(a, b))
           /\ Approaching(a, b) /\ Approaching(b, a)
           /\ MergesWith(a, b) /\ MergesWith(b, a)

\* C8 as stated: for a pool of exactly two equal-mass bodies on a head-on
\* course that satisfy the merge predicate, both are flagged for merge and
\* after the tick the pool contains exactly one body, whose mass is the sum
\* of the two and whose position and velocity are the averages of the two,
\* whichever of the two comes first in the list.
C8_AveragesAfterTick ==
    HeadOnPair =>
        LET a == pass.pre[1]
            b == pass.pre[2]
        IN  /\ pass.to_merge = {a.id, b.id}
            /\ LastCall = "move_all" =>
                /\ Len(bodies) = 1
                /\ bodies[1].mass = Add(a.mass, b.mass)
                /\ VAvgClose(bodies[1].velocity, a.velocity, b.velocity)
                /\ VAvgClose(bodies[1].position, a.position, b.position)

\* C8 (amended): for a pool of exactly two equal-mass bodies on a head-on
\* course that satisfy the merge predicate, both are flagged for merge and
\* the pass leaves exactly one body, synthesized with the sum of the two
\* masses, the average of the two positions and the average of the two
\* velocities; after the tick the pool contains exactly that body, with the
\* same mass and velocity and with its position advanced by the integration
\* (velocity * delta), whichever of the two comes first in the list.
C8_AveragesAtMerge ==
    HeadOnPair =>
        LET a == pass.pre[1]
            b == pass.pre[2]
        IN  /\ pass.to_merge = {a.id, b.id}
            /\ Len(pass.post) = 1
            /\ pass.post[1].id \notin {a.id, b.id}
            /\ pass.post[1].mass = Add(a.mass, b.mass)
            /\ VAvgClose(pass.post[1].velocity, a.velocity, b.velocity)
            /\ VAvgClose(pass.post[1].position, a.position, b.position)
            /\ LastCall = "move_all" =>
                /\ Len(bodies) = 1
                /\ bodies[1].id = pass.post[1].id
                /\ bodies[1].mass = pass.post[1].mass
                /\ bodies[1].velocity = pass.post[1].velocity
                /\ bodies[1].position =
                      VAdd(pass.post[1].position,
                           VScale(delta, pass.post[1].velocity))

\* C8 witness: a tick has ended on a head-on pair whose second body is the
\* one listed first on the line of the centres, and the one body left moves.
C8_Witness ==
    /\ HeadOnPair
    /\ LastCall = "move_all"
    /\ Gt(pass.pre[1].position[1], pass.pre[2].position[1])
    /\ Len(bodies) = 1
    /\ bodies[1].velocity # VZero

\* The physics outcome of a pass on bs: the exception that ended it, or the
\* masses, radii, positions and velocities of the bodies it leaves.
Outcome(bs) ==
    LET r == UpdateResult(bs, nextId)
    IN  [error |-> r.error,
         bodies |-> IF r.error # "" THEN {}
                    ELSE {<<r.bodies[k].mass, r.bodies[k].radius,
                            r.bodies[k].position, r.bodies[k].velocity>> :
                              k \in 1..Len(r.bodies)}]

\* C9: a pass on any other ordering of the bodies the last pass started from
\* leaves the same set of surviving and synthesized bodies, with the same
\* masses, radii, positions and velocities.
C9_OrderIndependent ==
    (LastCall = "update_system" /\ pass.pre # <<>>) =>
        \A order \in Orders(Len(pass.pre)) :
            Outcome([k \in 1..Len(pass.pre) |-> pass.pre[order[k]]])
                = Outcome(pass.pre)

\* C10: no body with a mass <= 0 or a radius <= 0 is ever in the pool, the
\* bodies made in the drawer included.
C10_PositiveMassAndRadius ==
    \A k \in 1..Len(bodies) :
        /\ Gt(bodies[k].mass, Zero)
        /\ Gt(bodies[k].radius, Zero)

\* Two bodies of bs are at the same position.
Coincident(bs) ==
    \E i, j \in 1..Len(bs) : i # j /\ bs[i].position = bs[j].position

\* C11: when two bodies of the pool have identical positions, the
\* force/collision pass completes without raising an error, and the two
\* bodies are a merge pair of that pass.
C11_CoincidentBodiesMerge ==
    (pass.pre # <<>> /\ Coincident(pass.pre)) =>
        /\ pass.error = ""
        /\ \A i, j \in 1..Len(pass.pre) :
              (i # j /\ pass.pre[i].position = pass.pre[j].position) =>
                  \E p \in 1..Len(pass.merge_info) :
                      pass.merge_info[p] \in
                          {<<pass.pre[i].id, pass.pre[j].id>>,
                           <<pass.pre[j].id, pass.pre[i].id>>}

\* A step that is a call of update_heatmap.
HeatmapStep == calls' = Append(calls, "update_heatmap")

\* C12: a call of update_heatmap made while the heatmap is disabled, or
\* while the elapsed-time counter is below HEATMAP_UPDATE_INTERVAL, leaves
\* the cached grid and the cached surface unchanged and recomputes nothing;
\* a disabled call also leaves the counter unchanged.
C12_NoRefreshWhenIdle ==
    [][(HeatmapStep /\ (~heatmap_active
                         \/ Lt(heatmap_update_time, HEATMAP_UPDATE_INTERVAL)))
        => /\ heatmap' = heatmap
           /\ heatmap_surface' = heatmap_surface
           /\ ~update_heatmap(HeatmapFields, bodies, delta', zoom,
                              ViewRect).recomputed
           /\ (~heatmap_active =>
                  heatmap_update_time' = heatmap_update_time)]_vars

\* A disabled call has just been made, after an enabled call that came
\* before the interval had elapsed (it advanced the counter).
C12_Witness ==
    /\ LastCall = "update_heatmap"
    /\ pc = "sampled"
    /\ ~heatmap_active
    /\ heatmap_update_time # Zero
    /\ Lt(heatmap_update_time, HEATMAP_UPDATE_INTERVAL)

\* The grid has cells, and the same value in every one of them.
Uniform(grid) ==
    /\ Flatten(grid) # <<>>
    /\ \A k \in 1..Len(Flatten(grid)) : Flatten(grid)[k] = Flatten(grid)[1]

\* A step that is a call of update_heatmap which refreshes the grid.
RefreshStep ==
    /\ HeatmapStep
    /\ heatmap_active
    /\ ~Lt(heatmap_update_time, HEATMAP_UPDATE_INTERVAL)

\* C13: a heatmap refresh of an empty pool, or of a pool whose sampled field
\* has the same value in every cell, raises nothing and leaves a blank
\* surface.
C13_UniformFieldIsBlank ==
    [][(RefreshStep /\ (bodies = <<>> \/ Uniform(heatmap')))
        => /\ raised' = ""
           /\ heatmap_surface'.kind = "blank"
           /\ Uniform(heatmap')]_vars

\* A refresh has just sampled a uniform, non-zero field of a pool that is
\* not empty.
C13_Witness ==
    /\ LastCall = "update_heatmap"
    /\ pc = "sampled"
    /\ bodies # <<>>
    /\ heatmap_update_time = Zero
    /\ Uniform(heatmap)
    /\ heatmap[1][1] # Zero
    /\ heatmap_surface.kind = "blank"

\* The impulse * reflection that the resolved collisions of body i of the
\* last pass add up to: the due_acceleration of its update, zero when it
\* has none.
DueAcceleration(i) ==
    IF \E q \in 1..Len(pass.updates) : pass.updates[q].affected = i
    THEN pass.updates[CHOOSE q \in 1..Len(pass.updates) :
                          pass.updates[q].affected = i].due_acceleration
    ELSE VZero

\* C14: every body that survives a force/collision pass leaves it with an
\* acceleration that is the sum of the gravity of every other body and of
\* impulse * reflection for every collision resolved for it: the gravity is
\* not discarded when the body's pending update is committed.
C14_GravityKeptOnCommit ==
    PassReturned =>
        \A i \in 1..Len(pass.pre) :
            (pass.pre[i].id \in Ids(pass.post)) =>
                VClose(ById(pass.post, pass.pre[i].id).acceleration,
                       VAdd(GravityLoop(pass.pre, i, 1, 0).acceleration,
                            DueAcceleration(i)))

\* The merge pairs of the last pass that the collision of body i with body
\* j started, as indexes of pass.pre.
StartedPair(i, j) ==
    \E p \in 1..Len(pass.merge_info) :
        pass.merge_info[p] = <<pass.pre[i].id, pass.pre[j].id>>

\* C15: once a pending collision of a body has bias < 0.1, no later pending
\* collision of that body is processed in the tick: none starts a merge pair
\* for it, and when the first of its collisions had bias < 0.1 its pending
\* mass, radius, color and acceleration are still those it started with.
C15_NothingAfterAbsorption ==
    PassReturned =>
        \A q \in 1..Len(pass.updates) :
            /\ \A a, b \in 1..Len(pass.updates[q].affectors) :
                  (a < b /\ Lt(pass.updates[q].affectors[a].col_info.bias,
                               D(1, 1)))
                  => ~StartedPair(pass.updates[q].affected,
                                  pass.updates[q].affectors[b].affector)
            /\ (Len(pass.updates[q].affectors) > 1
                /\ Lt(pass.updates[q].affectors[1].col_info.bias, D(1, 1)))
               => /\ pass.updates[q].new_mass =
                        pass.pre[pass.updates[q].affected].mass
                  /\ pass.updates[q].new_radius =
                        pass.pre[pass.updates[q].affected].radius
                  /\ pass.updates[q].new_color =
                        pass.pre[pass.updates[q].affected].color
                  /\ pass.updates[q].due_acceleration = VZero

\* C16: within one force/collision pass a body that belongs to a merge pair
\* claimed earlier in the pass never starts another merge pair as the
\* affected body; every body is the first element of at most one pair.
C16_FirstClaimWins ==
    (pass.pre # <<>>) =>
        \A p, q \in 1..Len(pass.merge_info) :
            p < q => /\ pass.merge_info[q][1] # pass.merge_info[p][1]
                     /\ pass.merge_info[q][1] # pass.merge_info[p][2]

\* A pass has made merge pairs and has skipped a collision that satisfied
\* the merge test, because its affected body was already claimed.
C16_Witness ==
    /\ PassReturned
    /\ Len(pass.merge_info) >= 2
    /\ \E q \in 1..Len(pass.updates) :
        \E a \in 1..Len(pass.updates[q].affectors) :
            /\ ~Lt(pass.updates[q].affectors[a].col_info.bias, D(1, 1))
            /\ MergePredicate(pass.updates[q].affectors[a].col_info)
            /\ ~StartedPair(pass.updates[q].affected,
                            pass.updates[q].affectors[a].affector)

\* C17: a body that is the affected side of a collision with bias >= 0.9
\* and of no other collision, and that survives the pass unmerged, has the
\* mass and the radius it had before the pass.
C17_DominantBodyKeepsMass ==
    PassReturned =>
        \A q \in 1..Len(pass.updates) :
            (/\ Len(pass.updates[q].affectors) = 1
             /\ ~Lt(pass.updates[q].affectors[1].col_info.bias, D(9, 1))
             /\ pass.pre[pass.updates[q].affected].id \in Ids(pass.post))
            => /\ ById(pass.post, pass.pre[pass.updates[q].affected].id).mass
                     = pass.pre[pass.updates[q].affected].mass
               /\ ById(pass.post, pass.pre[pass.updates[q].affected].id).radius
                     = pass.pre[pass.updates[q].affected].radius

\* C18: move_all is a semi-implicit Euler step of every body of the pool:
\* the new velocity is the old velocity plus acceleration * delta, the new
\* position is the old position plus the new velocity * delta, the
\* acceleration is zero afterwards, and mass, radius and color (and every
\* other field) are untouched.
C18_SemiImplicitEuler ==
    [][(calls' = Append(calls, "move_all")) =>
          /\ Len(bodies') = Len(bodies)
          /\ \A k \in 1..Len(bodies) :
                /\ bodies'[k].velocity =
                      VAdd(bodies[k].velocity,
                           VScale(delta, bodies[k].acceleration))
                /\ bodies'[k].position =
                      VAdd(bodies[k].position,
                           VScale(delta, bodies'[k].velocity))
                /\ bodies'[k].acceleration = VZero
                /\ bodies'[k].mass = bodies[k].mass
                /\ bodies'[k].radius = bodies[k].radius
                /\ bodies'[k].color = bodies[k].color
                /\ bodies'[k].id = bodies[k].id
                /\ bodies'[k].name = bodies[k].name]_vars

\* move_all has integrated a body that the pass left with an acceleration
\* and a velocity: both its velocity and its position have changed.
C18_Witness ==
    /\ LastCall = "move_all"
    /\ Len(bodies) = Len(pass.post)
    /\ \E k \in 1..Len(bodies) :
          /\ bodies[k].id = pass.post[k].id
          /\ pass.post[k].acceleration # VZero
          /\ pass.post[k].velocity # VZero
          /\ bodies[k].velocity # pass.post[k].velocity
          /\ bodies[k].position # pass.post[k].position
          /\ bodies[k].acceleration = VZero
          /\ bodies[k].mass = pass.post[k].mass

\* The sample points of the grid that update_heatmap queries (lines 276-279).
SamplePoints ==
    { SamplePoint(CellCenters(ViewWidth)[x], CellCenters(ViewHeight)[y],
                  zoom, ViewRect) :
        x \in 1..Len(CellCenters(ViewWidth)),
        y \in 1..Len(CellCenters(ViewHeight)) }

\* update_heatmap has just recomputed the grid from the bodies of the pool.
Refreshed ==
    /\ LastCall = "update_heatmap"
    /\ heatmap_active
    /\ heatmap_update_time = Zero
    /\ heatmap # <<>>

\* C19: for every body and every query point calc_gravity_at_point returns
\* a force of at most G / radius squared and, as direction, a vector of
\* squared length 1, also for the points inside the body's radius.
C19_ForceFlooredUnitDirection ==
    Refreshed =>
        \A k \in 1..Len(bodies) : \A point \in SamplePoints :
            ~PointRaises(bodies[k], point) =>
                /\ Le(calc_gravity_at_point(bodies[k], point).force,
                      Div(GRAVITY_CONSTANT,
                          Mul(bodies[k].radius, bodies[k].radius)))
                /\ Close(SqrNorm(calc_gravity_at_point(bodies[k], point).direction),
                         I(1))

\* Bodies i and j of bs overlap at distinct positions and have no relative
\* velocity.
RestingContact(bs, i, j) ==
    /\ i # j
    /\ bs[i].position # bs[j].position
    /\ Ge(Intersection(bs[i], bs[j]), Zero)
    /\ RelVel(bs[i], bs[j]) = VZero

\* C20: for two overlapping bodies at distinct positions whose relative
\* velocity is exactly zero, calc_collision_bias returns None in both
\* directions and raises no ZeroDivisionError; a pass on the two alone
\* returns; and a pass that returns records no collision between them and
\* (when neither touches a third body) keeps both, with their mass, radius
\* and color, and gives each only the acceleration of gravity.
C20_NoResponseAtRest ==
    (pass.pre # <<>>) =>
        \A i, j \in 1..Len(pass.pre) :
            RestingContact(pass.pre, i, j) =>
                /\ ~CollisionRaises(pass.pre[i], pass.pre[j])
                /\ calc_collision_bias(pass.pre[i], pass.pre[j]) = <<>>
                /\ Len(pass.pre) = 2 => pass.error = ""
                /\ PassReturned =>
                     /\ \A q \in 1..Len(pass.updates) :
                          \A a \in 1..Len(pass.updates[q].affectors) :
                             ~(/\ pass.updates[q].affected = i
                               /\ pass.updates[q].affectors[a].affector = j)
                     /\ ~StartedPair(i, j)
                     /\ (OnlyContact(pass.pre, i, j) /\ OnlyContact(pass.pre, j, i))
                        =>
                        /\ pass.pre[i].id \in Ids(pass.post)
                        /\ ById(pass.post, pass.pre[i].id) =
                              [pass.pre[i] EXCEPT !.acceleration =
                                  GravityLoop(pass.pre, i, 1, 0).acceleration]

\* A pass has returned on a pool in which two overlapping bodies without
\* relative velocity touch no third body: both are kept, and gravity has
\* accelerated them.
C20_Witness ==
    /\ PassReturned
    /\ \E i, j \in 1..Len(pass.pre) :
          /\ RestingContact(pass.pre, i, j)
          /\ Gt(Intersection(pass.pre[i], pass.pre[j]), Zero)
          /\ OnlyContact(pass.pre, i, j)
          /\ OnlyContact(pass.pre, j, i)
          /\ {pass.pre[i].id, pass.pre[j].id} \subseteq Ids(pass.post)
          /\ ById(pass.post, pass.pre[i].id).acceleration # VZero

\* The sum of the masses of the bodies bs[k..].
RECURSIVE MassFrom(_, _)
MassFrom(bs, k) ==
    IF k > Len(bs) THEN Zero ELSE Add(bs[k].mass, MassFrom(bs, k + 1))

\* The bodies the pass started with that are members of a merge pair, each
\* listed once.
MergedBodies ==
    [k \in 1..Len(SetToSeq(MergeMembers)) |->
        ById(pass.pre, SetToSeq(MergeMembers)[k])]

\* C21: within one pass no body belongs to more than one merge pair, in
\* either role, and the masses of the bodies the merges synthesize sum to
\* the masses of the distinct bodies the merges remove.
C21_MergePairsDisjoint ==
    PassReturned =>
        /\ \A p, q \in 1..Len(pass.merge_info) :
              p # q => {pass.merge_info[p][1], pass.merge_info[p][2]}
                         \cap {pass.merge_info[q][1], pass.merge_info[q][2]} = {}
        /\ Close(MassFrom(pass.added, 1), MassFrom(MergedBodies, 1))

\* The identities the loop of lines 246-247 of the pass of this step removes.
Removed == {pass'.removals[r] : r \in 1..Len(pass'.removals)}

\* C22: a pass never makes the pool longer.  A pass that returns with k
\* merge pairs adds exactly k bodies and (for k > 0) removes at least k + 1
\* distinct ones; the pool gets shorter whenever the pass merged or
\* absorbed a body; and only add_body makes the pool longer.
C22_PassNeverGrowsPool ==
    [][/\ Len(bodies') > Len(bodies) => calls' = Append(calls, "add_body")
       /\ (calls' = Append(calls, "update_system") /\ pass'.error = "") =>
            /\ Len(pass'.added) = Len(pass'.merge_info)
            /\ Len(pass'.merge_info) > 0 =>
                  Cardinality(Removed) >= Len(pass'.merge_info) + 1
            /\ Len(bodies') = Len(bodies) - Cardinality(Removed)
                                 + Len(pass'.merge_info)
            /\ (pass'.merge_info # <<>> \/ pass'.to_remove # {}) =>
                  Len(bodies') < Len(bodies)]_vars

\* A pass has returned that made two merge pairs and left the pool
\* shorter than it found it.
C22_Witness ==
    /\ PassReturned
    /\ LastCall = "update_system"
    /\ Len(pass.merge_info) = 2
    /\ Len(pass.added) = 2
    /\ Len(bodies) < Len(pass.pre)

\* Every body of bs has a positive mass and no two are at the same position.
PositiveAndApart(bs) ==
    /\ \A k \in 1..Len(bs) : Gt(bs[k].mass, Zero)
    /\ \A i, j \in 1..Len(bs) : i # j => bs[i].position # bs[j].position

\* C23: a pass on a non-empty pool of bodies with positive masses at
\* pairwise distinct positions leaves a non-empty pool: every absorbed body
\* had a heavier body next to it, the heaviest body is never absorbed, and
\* every merge pair is replaced by a synthesized body that is in the pool.
C23_PoolStaysInhabited ==
    (pass.pre # <<>> /\ PositiveAndApart(pass.pre)) =>
        /\ pass.post # <<>>
        /\ LastCall = "update_system" => bodies # <<>>
        /\ \A id \in pass.to_remove :
              \E k \in 1..Len(pass.pre) :
                  /\ Gt(pass.pre[k].mass, ById(pass.pre, id).mass)
                  /\ Ge(Intersection(pass.pre[k], ById(pass.pre, id)), Zero)
        /\ PassReturned =>
              /\ Len(pass.added) = Len(pass.merge_info)
              /\ \A p \in 1..Len(pass.added) :
                    pass.added[p].id \in Ids(pass.post)

\* A pass has returned that removed every body it started with: one was
\* absorbed, the others merged, and the pool holds the synthesized body.
C23_Witness ==
    /\ PassReturned
    /\ PositiveAndApart(pass.pre)
    /\ pass.to_remove # {}
    /\ Ids(pass.pre) \cap Ids(pass.post) = {}
    /\ pass.post # <<>>

\* Every body of bs has a positive mass and a positive radius.
AllPositive(bs) ==
    \A k \in 1..Len(bs) : Gt(bs[k].mass, Zero) /\ Gt(bs[k].radius, Zero)

\* C24: if every body of the pool has mass > 0 and radius > 0 before a
\* pass, so has every body of the pool after it (survivors, bodies that
\* took part in a transfer, synthesized bodies), and so has every pending
\* update, however many collisions its body has.
C24_PassKeepsPositive ==
    (pass.pre # <<>> /\ AllPositive(pass.pre)) =>
        /\ AllPositive(pass.post)
        /\ AllPositive(pass.added)
        /\ \A q \in 1..Len(pass.updates) :
              /\ Gt(pass.updates[q].new_mass, Zero)
              /\ Gt(pass.updates[q].new_radius, Zero)

\* A pass has returned in which a body with two collisions survived with a
\* changed mass.
C24_Witness ==
    /\ PassReturned
    /\ AllPositive(pass.pre)
    /\ \E q \in 1..Len(pass.updates) :
          /\ Len(pass.updates[q].affectors) >= 2
          /\ pass.pre[pass.updates[q].affected].id \in Ids(pass.post)
          /\ ById(pass.post, pass.pre[pass.updates[q].affected].id).mass
                # pass.pre[pass.updates[q].affected].mass

\* A step that is an update_heatmap call of the sampling client (a call
\* never switches the sampler, toggle_heatmap always does).
SampleStep == calls' = <<"update_heatmap">> /\ heatmap_active' = heatmap_active

\* The grid and the surface are as they were.
GridKept == heatmap' = heatmap /\ heatmap_surface' = heatmap_surface

\* C25: for any sequence of update_heatmap and toggle_heatmap calls the
\* grid is recomputed only by an enabled call made when the counter is
\* already >= HEATMAP_UPDATE_INTERVAL, and that call sets the counter to 0
\* whatever its delta; an enabled call below the interval adds its delta to
\* the counter and every other step leaves the counter alone, so that the
\* counter a recomputation finds is the sum of the deltas of the enabled
\* calls since the last one; and while the sampler stays enabled a
\* recomputation eventually occurs.
C25_RecomputeOnlyWhenDue ==
    /\ [][/\ SampleStep =>
              /\ ~heatmap_active =>
                    GridKept /\ heatmap_update_time' = heatmap_update_time
              /\ (heatmap_active
                     /\ Lt(heatmap_update_time, HEATMAP_UPDATE_INTERVAL)) =>
                    /\ GridKept
                    /\ heatmap_update_time' = Add(heatmap_update_time, delta')
              /\ (heatmap_active
                     /\ ~Lt(heatmap_update_time, HEATMAP_UPDATE_INTERVAL)) =>
                    /\ heatmap_update_time' = Zero
                    /\ heatmap' = SampleGrid(bodies, zoom, ViewRect)
          /\ ~SampleStep =>
              GridKept /\ heatmap_update_time' = heatmap_update_time]_vars
    /\ heatmap_active ~> (Refreshed \/ ~heatmap_active)

\* A call of delta 6 made with the counter beyond the interval has
\* recomputed the grid of the empty pool and reset the counter.
C25_Witness ==
    /\ Refreshed
    /\ delta = I(6)
    /\ heatmap = SampleGrid(bodies, zoom, ViewRect)
    /\ heatmap_surface.kind = "blank"

====
